---- MODULE Spec2Model ----
(***************************************************************************)
(* A model of the process-execution and script-generation core of the      *)
(* Aseprite MCP server (src/src/aseprite.rs):                              *)
(*   - AsepriteRunner: temp_script_path, run_script, run_script_on_file,   *)
(*     run_cli and execute_with_timeout, together with the child process,  *)
(*     its stdout/stderr pipes and the files of the temp directory;        *)
(*   - the pure helpers lua_string, normalize_path, lua_path and           *)
(*     ScriptOutput::result_text.                                          *)
(*                                                                         *)
(* Spec       is the runner serving one invocation after the other.        *)
(* FairSpec   is Spec with the fairness of the tokio runtime and the OS.   *)
(* AllocSpec  is temp_script_path called by concurrent tasks.              *)
(* SpecText   applies the Lua string helpers to every bounded string.      *)
(* SpecResult applies result_text to every bounded ScriptOutput.           *)
(***************************************************************************)
EXTENDS Integers, Sequences, FiniteSets

\* ------------------------------------------------------------------ bounds

\* Number of tasks (request handlers) the server runs.
NumTasks == 3
\* Calls of temp_script_path over the life of the process (Spec).
MaxCalls == 2
\* Largest timestamp SystemTime::now() yields (timestamps are 0..MaxTs).
MaxTs == 1
\* Capacity of the OS pipe between the child and the supervisor, in bytes.
PipeCap == 1
\* Most bytes a child writes to one stream.
MaxOut == 2

Tasks == 1..NumTasks
Timestamps == 0..MaxTs
Streams == {"stdout", "stderr"}

\* ---------------------------------------------------------------- state

VARIABLES
    COUNTER,      \* static COUNTER: AtomicU64 of temp_script_path
    files,        \* the paths that exist in the temp directory
    pc,           \* pc[t]: where task t is inside its invocation
    kind,         \* kind[t]: run_script, run_script_on_file or run_cli
    ts,           \* ts[t]: the timestamp temp_script_path read
    script_path,  \* script_path[t]: the local of run_script / run_script_on_file
    child,        \* child[t]: none, running, zombie (exited, not waited), reaped
    behaviour,    \* behaviour[t]: how the spawned program behaves
    output,       \* output[t][s]: bytes the program wants to write to stream s
    wrote,        \* wrote[t][s]: bytes it has written so far
    pipe,         \* pipe[t][s]: bytes in the pipe of stream s
    wopen,        \* wopen[t]: some process still holds the pipes' write ends
    status,       \* status[t]: the ExitStatus of the child
    captured,     \* captured[t][s]: bytes read_to_end has put in buf
    result,       \* result[t]: the value the invocation returns
    phase,        \* where main is: start, found, constructed, serving, exited
    exe_path,     \* AsepriteRunner.exe_path
    temp_dir,     \* AsepriteRunner.temp_dir
    discoveries,  \* how many times find_aseprite has run in this process
    mkdirs,       \* how many times new() has run create_dir_all
    exe_exists,   \* the file exe_path names is there
    arg,          \* input of a pure helper (SpecText, SpecResult, ...)
    ret,          \* its result
    op            \* the helper that produced ret

runnerVars == <<COUNTER, files, pc, kind, ts, script_path, child,
                behaviour, output, wrote, pipe, wopen, status, captured, result>>
mainVars == <<phase, exe_path, temp_dir, discoveries, mkdirs, exe_exists>>
pureVars == <<arg, ret, op>>
vars == <<runnerVars, mainVars, pureVars>>

\* ------------------------------------------------------------- helpers

Digit(d) == CASE d = 0 -> "0" [] d = 1 -> "1" [] d = 2 -> "2" [] d = 3 -> "3"
              [] d = 4 -> "4" [] d = 5 -> "5" [] d = 6 -> "6" [] d = 7 -> "7"
              [] d = 8 -> "8" [] d = 9 -> "9"

\* format!("{}", n) of an unsigned integer: its decimal digits.
RECURSIVE Decimal(_)
Decimal(n) == IF n < 10 THEN <<Digit(n)>>
              ELSE Decimal(n \div 10) \o <<Digit(n % 10)>>

\* The file name format!("mcp_{}_{}.lua", ts, count), as a sequence of
\* characters; temp_dir is the same for every call and is left out.
\* (TempPathNoCount: a name made of the timestamp alone.)
TempPathNoCount(t, count) ==
    <<"m", "c", "p", "_">> \o Decimal(t) \o <<".", "l", "u", "a">>
TempPath(t, count) ==
    <<"m", "c", "p", "_">> \o Decimal(t) \o <<"_">> \o Decimal(count)
        \o <<".", "l", "u", "a">>

NoPath == <<>>
NoStatus == [kind |-> "none", code |-> 0]
\* ExitStatus: exited with a code, or terminated by a signal.
Statuses == {[kind |-> "exited", code |-> 0], [kind |-> "exited", code |-> 1],
             [kind |-> "signaled", code |-> 15]}
Killed == [kind |-> "signaled", code |-> 9]

\* ExitStatus::success(): the process exited, and with code 0.
\* (SuccessIfExited: any exit that no signal caused.)
SuccessIfExited(st) == st.kind = "exited"
Success(st) == st.kind = "exited" /\ st.code = 0

Zero == [s \in Streams |-> 0]
NoResult == [tag |-> "none"]
ErrResult(e) == [tag |-> "Err", error |-> e]
OkResult(out, err, st) ==
    [tag |-> "Ok", stdout |-> out, stderr |-> err, success |-> Success(st)]

UsesScript(k) == k \in {"run_script", "run_script_on_file"}

\* The program has something it can do right now: a byte to write into a
\* pipe with room, or nothing left to write (it can exit).
CanWrite(t, s) == wrote[t][s] < output[t][s] /\ pipe[t][s] < PipeCap
Finished(t) == \A s \in Streams : wrote[t][s] = output[t][s]
ChildBlocked(t) ==
    /\ child[t] = "running"
    /\ ~Finished(t)
    /\ \A s \in Streams : ~CanWrite(t, s)

\* ------------------------------------------------------------------ Init

IdleTasks ==
    /\ COUNTER = 0
    /\ files = {}
    /\ pc = [t \in Tasks |-> "idle"]
    /\ kind = [t \in Tasks |-> "none"]
    /\ ts = [t \in Tasks |-> 0]
    /\ script_path = [t \in Tasks |-> NoPath]
    /\ child = [t \in Tasks |-> "none"]
    /\ behaviour = [t \in Tasks |-> "none"]
    /\ output = [t \in Tasks |-> Zero]
    /\ wrote = [t \in Tasks |-> Zero]
    /\ pipe = [t \in Tasks |-> Zero]
    /\ wopen = [t \in Tasks |-> FALSE]
    /\ status = [t \in Tasks |-> NoStatus]
    /\ captured = [t \in Tasks |-> Zero]
    /\ result = [t \in Tasks |-> NoResult]

\* The executable discovery found, and env::temp_dir().join("aseprite_mcp").
ExePath == "/custom/aseprite"
TempDir == "/tmp/aseprite_mcp"

\* main has built the server and serves: discovery and create_dir_all have
\* run once each and the Runner holds their results.
Constructed ==
    /\ phase = "serving"
    /\ exe_path = ExePath
    /\ temp_dir = TempDir
    /\ discoveries = 1
    /\ mkdirs = 1
    /\ exe_exists = TRUE

RunnerInit == IdleTasks /\ Constructed

PureIdle == arg = <<>> /\ ret = <<>> /\ op = "none"

Init == RunnerInit /\ PureIdle

\* ----------------------------------------------- the runner's operations

\* (CallChecksExe: a call that looks for the executable first and reports
\* it missing.)
CallChecksExe(t, k) ==
    /\ pc[t] = "idle"
    /\ kind' = [kind EXCEPT ![t] = k]
    /\ IF exe_exists
       THEN /\ pc' = [pc EXCEPT ![t] = IF UsesScript(k) THEN "now" ELSE "spawn"]
            /\ UNCHANGED result
       ELSE /\ pc' = [pc EXCEPT ![t] = "returned"]
            /\ result' = [result EXCEPT ![t] = ErrResult("NotFound")]
    /\ UNCHANGED <<COUNTER, files, ts, script_path, child, behaviour,
                   output, wrote, pipe, wopen, status, captured>>

\* (CallAllocatesAlways: run_cli taking a temp path as the other two do.)
CallAllocatesAlways(t, k) ==
    /\ pc[t] = "idle"
    /\ kind' = [kind EXCEPT ![t] = k]
    /\ pc' = [pc EXCEPT ![t] = "now"]
    /\ UNCHANGED <<COUNTER, files, ts, script_path, child, behaviour,
                   output, wrote, pipe, wopen, status, captured, result>>

\* A request handler calls run_script, run_script_on_file or run_cli.
\* run_cli builds its command at once; the other two allocate a path first.
Call(t, k) ==
    /\ pc[t] = "idle"
    /\ kind' = [kind EXCEPT ![t] = k]
    /\ pc' = [pc EXCEPT ![t] = IF UsesScript(k) THEN "now" ELSE "spawn"]
    /\ UNCHANGED <<COUNTER, files, ts, script_path, child, behaviour,
                   output, wrote, pipe, wopen, status, captured, result>>

\* temp_script_path, first half: SystemTime::now() ... as_nanos().
ReadClock(t) ==
    /\ pc[t] = "now"
    /\ \E n \in Timestamps : ts' = [ts EXCEPT ![t] = n]
    /\ pc' = [pc EXCEPT ![t] = "fetch_add"]
    /\ UNCHANGED <<COUNTER, files, kind, script_path, child,
                   behaviour, output, wrote, pipe, wopen, status, captured,
                   result>>

\* (FetchAddThenSpawn: the path allocated and the child spawned with it
\* before the script is written.)
FetchAddThenSpawn(t) ==
    /\ pc[t] = "fetch_add"
    /\ LET count == COUNTER
           path == TempPath(ts[t], count)
       IN /\ COUNTER' = COUNTER + 1
          /\ script_path' = [script_path EXCEPT ![t] = path]
    /\ pc' = [pc EXCEPT ![t] = "spawn"]
    /\ UNCHANGED <<files, kind, ts, child, behaviour, output, wrote, pipe,
                   wopen, status, captured, result>>

\* temp_script_path, second half: COUNTER.fetch_add(1) is one atomic step;
\* the path is then formatted from the task's own ts and count.
FetchAdd(t) ==
    /\ pc[t] = "fetch_add"
    /\ LET count == COUNTER
           path == TempPath(ts[t], count)
       IN /\ COUNTER' = COUNTER + 1   \* a u64: wraps only after 2^64 calls
          /\ script_path' = [script_path EXCEPT ![t] = path]
    /\ pc' = [pc EXCEPT ![t] = "write"]
    /\ UNCHANGED <<files, kind, ts, child, behaviour, output, wrote, pipe,
                   wopen, status, captured, result>>

\* (WriteFailureIgnored: the result of the write dropped, the child spawned
\* whether or not the script file was written.)
WriteFailureIgnored(t) ==
    /\ pc[t] = "write"
    /\ \/ files' = files \cup {script_path[t]}
       \/ \E created \in BOOLEAN :
             files' = IF created THEN files \cup {script_path[t]} ELSE files
    /\ pc' = [pc EXCEPT ![t] = "spawn"]
    /\ UNCHANGED <<COUNTER, kind, ts, script_path, child, behaviour,
                   output, wrote, pipe, wopen, status, captured, result>>

\* tokio::fs::write(&script_path, lua_code).await.context(..)?
\* It creates the file and then writes it: it may succeed, fail before the
\* file exists, or fail after creating it (a full disk). On failure the `?`
\* returns the error at once.
WriteScript(t) ==
    /\ pc[t] = "write"
    /\ \/ /\ files' = files \cup {script_path[t]}
          /\ pc' = [pc EXCEPT ![t] = "spawn"]
          /\ UNCHANGED result
       \/ /\ \E created \in BOOLEAN :
                files' = IF created THEN files \cup {script_path[t]} ELSE files
          /\ pc' = [pc EXCEPT ![t] = "returned"]
          /\ result' = [result EXCEPT ![t] = ErrResult("WriteFailed")]
    /\ UNCHANGED <<COUNTER, kind, ts, script_path, child, behaviour,
                   output, wrote, pipe, wopen, status, captured>>

\* Where an invocation goes when execute_with_timeout has returned:
\* run_script and run_script_on_file remove the temp file, run_cli returns.
AfterExecute(t) == IF UsesScript(kind[t]) THEN "cleanup" ELSE "returned"

\* (SpawnRetries: a failed spawn tried again.)
SpawnRetries(t) ==
    /\ pc[t] = "spawn"
    /\ \/ /\ exe_exists
          /\ \E b \in {"prompt", "slow", "hang"}, o \in [Streams -> 0..MaxOut] :
                /\ behaviour' = [behaviour EXCEPT ![t] = b]
                /\ output' = [output EXCEPT ![t] = o]
          /\ child' = [child EXCEPT ![t] = "running"]
          /\ wopen' = [wopen EXCEPT ![t] = TRUE]
          /\ pc' = [pc EXCEPT ![t] = "wait"]
          /\ UNCHANGED result
       \/ /\ result' = [result EXCEPT ![t] = ErrResult("SpawnFailed")]
          /\ UNCHANGED <<pc, child, behaviour, output, wopen>>
    /\ UNCHANGED <<COUNTER, files, kind, ts, script_path, wrote, pipe,
                   status, captured>>

\* (SpawnFailureIgnored: a failed spawn that still enters the wait.)
SpawnFailureIgnored(t) ==
    /\ pc[t] = "spawn"
    /\ \/ /\ exe_exists
          /\ \E b \in {"prompt", "slow", "hang"}, o \in [Streams -> 0..MaxOut] :
                /\ behaviour' = [behaviour EXCEPT ![t] = b]
                /\ output' = [output EXCEPT ![t] = o]
          /\ child' = [child EXCEPT ![t] = "running"]
          /\ wopen' = [wopen EXCEPT ![t] = TRUE]
          /\ pc' = [pc EXCEPT ![t] = "wait"]
          /\ UNCHANGED result
       \/ /\ result' = [result EXCEPT ![t] = ErrResult("SpawnFailed")]
          /\ pc' = [pc EXCEPT ![t] = "wait"]
          /\ UNCHANGED <<child, behaviour, output, wopen>>
    /\ UNCHANGED <<COUNTER, files, kind, ts, script_path, wrote, pipe,
                   status, captured>>

\* cmd.spawn().context("Failed to spawn Aseprite process")?
\* A spawned program is any program: how many bytes it writes to each
\* stream and whether it finishes in time are its own.  The spawn can fail
\* for any reason, and does fail when the file exe_path names is not there.
Spawn(t) ==
    /\ pc[t] = "spawn"
    /\ \/ /\ exe_exists
          /\ \E b \in {"prompt", "slow", "hang"}, o \in [Streams -> 0..MaxOut] :
                /\ behaviour' = [behaviour EXCEPT ![t] = b]
                /\ output' = [output EXCEPT ![t] = o]
          /\ child' = [child EXCEPT ![t] = "running"]
          /\ wopen' = [wopen EXCEPT ![t] = TRUE]
          /\ pc' = [pc EXCEPT ![t] = "wait"]
          /\ UNCHANGED result
       \/ /\ result' = [result EXCEPT ![t] = ErrResult("SpawnFailed")]
          /\ pc' = [pc EXCEPT ![t] = AfterExecute(t)]
          /\ UNCHANGED <<behaviour, output, child, wopen>>
    /\ UNCHANGED <<COUNTER, files, kind, ts, script_path, wrote,
                   pipe, status, captured>>

\* The program writes one byte to a stream whose pipe has room.  A write to
\* a full pipe blocks until the supervisor reads, so no step is enabled.
ChildWrite(t, s) ==
    /\ child[t] = "running"
    /\ CanWrite(t, s)
    /\ wrote' = [wrote EXCEPT ![t][s] = @ + 1]
    /\ pipe' = [pipe EXCEPT ![t][s] = @ + 1]
    /\ UNCHANGED <<COUNTER, files, pc, kind, ts, script_path, child,
                   behaviour, output, wopen, status, captured, result>>

\* The program has written everything and exits (a hanging one never does).
\* Its own write ends close; `inherited` says that a process it started
\* still holds them.
ChildExit(t) ==
    /\ child[t] = "running"
    /\ behaviour[t] # "hang"
    /\ Finished(t)
    /\ \E st \in Statuses, inherited \in BOOLEAN :
          /\ status' = [status EXCEPT ![t] = st]
          /\ wopen' = [wopen EXCEPT ![t] = inherited]
    /\ child' = [child EXCEPT ![t] = "zombie"]
    /\ UNCHANGED <<COUNTER, files, pc, kind, ts, script_path,
                   behaviour, output, wrote, pipe, captured, result>>

\* A process that inherited the write ends exits and the pipes reach EOF.
DescendantExit(t) ==
    /\ child[t] \in {"zombie", "reaped"}
    /\ wopen[t]
    /\ wopen' = [wopen EXCEPT ![t] = FALSE]
    /\ UNCHANGED <<COUNTER, files, pc, kind, ts, script_path, child,
                   behaviour, output, wrote, pipe, status, captured, result>>

\* tokio::time::timeout(PROCESS_TIMEOUT, child.wait()) => Ok(Ok(status)):
\* the child has exited; wait() reaps it.  timeout polls wait() first, so an
\* exited child wins over an elapsed timer.
WaitResolves(t) ==
    /\ pc[t] = "wait"
    /\ child[t] = "zombie"
    /\ child' = [child EXCEPT ![t] = "reaped"]
    /\ pc' = [pc EXCEPT ![t] = "read_stdout"]
    /\ UNCHANGED <<COUNTER, files, kind, ts, script_path, behaviour,
                   output, wrote, pipe, wopen, status, captured, result>>

\* timeout(..) => Ok(Err(e)): wait() itself failed;
\* result.context("Failed to wait for Aseprite process")? returns the error.
\* waitpid fails on a child only when that child is no longer there to be
\* waited for: it has exited and its status was collected elsewhere.
WaitFails(t) ==
    /\ pc[t] = "wait"
    /\ child[t] = "zombie"
    /\ child' = [child EXCEPT ![t] = "reaped"]
    /\ result' = [result EXCEPT ![t] = ErrResult("WaitFailed")]
    /\ pc' = [pc EXCEPT ![t] = AfterExecute(t)]
    /\ UNCHANGED <<COUNTER, files, kind, ts, script_path, behaviour, output,
                   wrote, pipe, wopen, status, captured>>

\* timeout(..) => Err(_): PROCESS_TIMEOUT elapsed and the child has not
\* exited.  A prompt program needs far less than the timeout for all it
\* does, so the timer can beat it only while it is blocked on a full pipe.
TimeoutElapses(t) ==
    /\ pc[t] = "wait"
    /\ child[t] = "running"
    /\ behaviour[t] = "prompt" => ChildBlocked(t)
    /\ pc' = [pc EXCEPT ![t] = "kill"]
    /\ UNCHANGED <<COUNTER, files, kind, ts, script_path, child,
                   behaviour, output, wrote, pipe, wopen, status, captured,
                   result>>

\* child.kill().await.ok(); bail!("Aseprite process timed out ...")
\* tokio's kill() is start_kill() (SIGKILL, unless the child has exited
\* meanwhile) followed by wait(), which reaps the child.
\* (KillNoWait: the timeout branch without the kill.)
KillNoWait(t) ==
    /\ pc[t] = "kill"
    /\ result' = [result EXCEPT ![t] = ErrResult("TimedOut")]
    /\ pc' = [pc EXCEPT ![t] = AfterExecute(t)]
    /\ UNCHANGED <<COUNTER, files, kind, ts, script_path, child,
                   behaviour, output, wrote, pipe, wopen, status, captured>>
\* (KillReturnsPartial: the timeout branch returning what the child wrote so
\* far as a failed outcome.)
KillReturnsPartial(t) ==
    /\ pc[t] = "kill"
    /\ IF child[t] = "running"
       THEN /\ status' = [status EXCEPT ![t] = Killed]
            /\ \E inherited \in BOOLEAN :
                  wopen' = [wopen EXCEPT ![t] = inherited]
       ELSE UNCHANGED <<status, wopen>>
    /\ child' = [child EXCEPT ![t] = "reaped"]
    /\ result' = [result EXCEPT ![t] =
                     OkResult(pipe[t]["stdout"], pipe[t]["stderr"], Killed)]
    /\ pc' = [pc EXCEPT ![t] = AfterExecute(t)]
    /\ UNCHANGED <<COUNTER, files, kind, ts, script_path, behaviour,
                   output, wrote, pipe, captured>>
Kill(t) ==
    /\ pc[t] = "kill"
    /\ IF child[t] = "running"
       THEN /\ status' = [status EXCEPT ![t] = Killed]
            /\ \E inherited \in BOOLEAN :
                  wopen' = [wopen EXCEPT ![t] = inherited]
       ELSE UNCHANGED <<status, wopen>>
    /\ child' = [child EXCEPT ![t] = "reaped"]
    /\ result' = [result EXCEPT ![t] = ErrResult("TimedOut")]
    /\ pc' = [pc EXCEPT ![t] = AfterExecute(t)]
    /\ UNCHANGED <<COUNTER, files, kind, ts, script_path, behaviour,
                   output, wrote, pipe, captured>>

\* handle.read_to_end(&mut buf): take what the pipe holds; at EOF (pipe empty
\* and every write end closed) the read ends; otherwise it stays pending.
\* stdout is read to its end before stderr is touched.
ReadToEnd(t, s, next) ==
    \/ /\ pipe[t][s] > 0
       /\ captured' = [captured EXCEPT ![t][s] = @ + pipe[t][s]]
       /\ pipe' = [pipe EXCEPT ![t][s] = 0]
       /\ UNCHANGED <<pc, result>>
    \/ /\ pipe[t][s] = 0
       /\ ~wopen[t]
       /\ pc' = [pc EXCEPT ![t] = next]
       /\ result' = [result EXCEPT ![t] =
                        IF s = "stderr"
                        THEN OkResult(captured[t]["stdout"],
                                      captured[t]["stderr"], status[t])
                        ELSE @]
       /\ UNCHANGED <<captured, pipe>>

\* (ReadStdoutEarly: stdout drained while the wait is still pending.)
ReadStdoutEarly(t) ==
    /\ IF pc[t] = "wait"
       THEN /\ pipe[t]["stdout"] > 0
            /\ captured' = [captured EXCEPT ![t]["stdout"] = @ + pipe[t]["stdout"]]
            /\ pipe' = [pipe EXCEPT ![t]["stdout"] = 0]
            /\ UNCHANGED <<pc, result>>
       ELSE /\ pc[t] = "read_stdout"
            /\ ReadToEnd(t, "stdout", "read_stderr")
    /\ UNCHANGED <<COUNTER, files, kind, ts, script_path, child,
                   behaviour, output, wrote, wopen, status>>

ReadStdout(t) ==
    /\ pc[t] = "read_stdout"
    /\ ReadToEnd(t, "stdout", "read_stderr")
    /\ UNCHANGED <<COUNTER, files, kind, ts, script_path, child,
                   behaviour, output, wrote, wopen, status>>

\* After stderr the ScriptOutput is built and execute_with_timeout returns.
ReadStderr(t) ==
    /\ pc[t] = "read_stderr"
    /\ ReadToEnd(t, "stderr", AfterExecute(t))
    /\ UNCHANGED <<COUNTER, files, kind, ts, script_path, child,
                   behaviour, output, wrote, wopen, status>>

\* (CleanupBeforeExit: the temp file removed as soon as the child is spawned.)
CleanupBeforeExit(t) ==
    /\ IF pc[t] = "wait"
       THEN /\ script_path[t] \in files
            /\ files' = files \ {script_path[t]}
            /\ UNCHANGED pc
       ELSE /\ pc[t] = "cleanup"
            /\ \E removed \in BOOLEAN :
                  files' = IF removed THEN files \ {script_path[t]} ELSE files
            /\ pc' = [pc EXCEPT ![t] = "returned"]
    /\ UNCHANGED <<COUNTER, kind, ts, script_path, child, behaviour,
                   output, wrote, pipe, wopen, status, captured, result>>

\* (CleanupSweepsDir: the cleanup emptying the temp directory.)
CleanupSweepsDir(t) ==
    /\ pc[t] = "cleanup"
    /\ \E removed \in BOOLEAN :
          files' = IF removed THEN {} ELSE files
    /\ pc' = [pc EXCEPT ![t] = "returned"]
    /\ UNCHANGED <<COUNTER, kind, ts, script_path, child, behaviour,
                   output, wrote, pipe, wopen, status, captured, result>>

\* (CleanupFailureReturned: a failed removal returned as the call's error.)
CleanupFailureReturned(t) ==
    /\ pc[t] = "cleanup"
    /\ \E removed \in BOOLEAN :
          /\ files' = IF removed THEN files \ {script_path[t]} ELSE files
          /\ result' = [result EXCEPT ![t] =
                           IF removed THEN @ ELSE ErrResult("RemoveFailed")]
    /\ pc' = [pc EXCEPT ![t] = "returned"]
    /\ UNCHANGED <<COUNTER, kind, ts, script_path, child, behaviour,
                   output, wrote, pipe, wopen, status, captured>>

\* tokio::fs::remove_file(&script_path).await: best effort; a failure is
\* logged with warn! and the file stays.  `result` is returned unchanged.
Cleanup(t) ==
    /\ pc[t] = "cleanup"
    /\ \E removed \in BOOLEAN :
          files' = IF removed THEN files \ {script_path[t]} ELSE files
    /\ pc' = [pc EXCEPT ![t] = "returned"]
    /\ UNCHANGED <<COUNTER, kind, ts, script_path, child, behaviour,
                   output, wrote, pipe, wopen, status, captured, result>>

\* The caller has the result; the task is free for the next request.  The
\* Child handle and the pipe handles were dropped when the call returned.
Finish(t) ==
    /\ pc[t] = "returned"
    /\ pc' = [pc EXCEPT ![t] = "idle"]
    /\ kind' = [kind EXCEPT ![t] = "none"]
    /\ ts' = [ts EXCEPT ![t] = 0]
    /\ script_path' = [script_path EXCEPT ![t] = NoPath]
    /\ child' = [child EXCEPT ![t] = "none"]
    /\ behaviour' = [behaviour EXCEPT ![t] = "none"]
    /\ output' = [output EXCEPT ![t] = Zero]
    /\ wrote' = [wrote EXCEPT ![t] = Zero]
    /\ pipe' = [pipe EXCEPT ![t] = Zero]
    /\ wopen' = [wopen EXCEPT ![t] = FALSE]
    /\ status' = [status EXCEPT ![t] = NoStatus]
    /\ captured' = [captured EXCEPT ![t] = Zero]
    /\ result' = [result EXCEPT ![t] = NoResult]
    /\ UNCHANGED <<COUNTER, files>>

\* ------------------------------------------------------------ the runner

SupervisorStep(t) ==
    \/ ReadClock(t)
    \/ FetchAdd(t)
    \/ WriteScript(t)
    \/ Spawn(t)
    \/ WaitResolves(t)
    \/ Kill(t)
    \/ ReadStdout(t)
    \/ ReadStderr(t)
    \/ Cleanup(t)

ChildStep(t) ==
    \/ \E s \in Streams : ChildWrite(t, s)
    \/ ChildExit(t)

Kinds == {"run_script", "run_script_on_file", "run_cli"}

\* Spec: the requests are served one after the other by task 1, each
\* invocation with every program the executable may be and every failure of
\* the file system and the OS.
Serving == {1}

Next ==
    \/ \E t \in Serving, k \in Kinds :
          /\ UsesScript(k) => COUNTER < MaxCalls
          /\ Call(t, k)
          /\ UNCHANGED <<mainVars, pureVars>>
    \/ \E t \in Serving : SupervisorStep(t) /\ UNCHANGED <<mainVars, pureVars>>
    \/ \E t \in Serving : ChildStep(t) /\ UNCHANGED <<mainVars, pureVars>>
    \/ \E t \in Serving : DescendantExit(t) /\ UNCHANGED <<mainVars, pureVars>>
    \/ \E t \in Serving : TimeoutElapses(t) /\ UNCHANGED <<mainVars, pureVars>>
    \/ \E t \in Serving : WaitFails(t) /\ UNCHANGED <<mainVars, pureVars>>
    \/ \E t \in Serving : Finish(t) /\ UNCHANGED <<mainVars, pureVars>>

Spec == Init /\ [][Next]_vars

\* The tokio runtime polls every ready future, the OS schedules a program
\* that can run, and time passes: each is weakly fair.  Nothing obliges a
\* descendant holding the pipes to exit, wait() to fail, or a request to
\* arrive.
FairSpec ==
    /\ Spec
    /\ \A t \in Serving : WF_vars(SupervisorStep(t) /\ UNCHANGED <<mainVars, pureVars>>)
    /\ \A t \in Serving : WF_vars(ChildStep(t) /\ UNCHANGED <<mainVars, pureVars>>)
    /\ \A t \in Serving : WF_vars(TimeoutElapses(t) /\ UNCHANGED <<mainVars, pureVars>>)
    /\ \A t \in Serving : WF_vars(Finish(t) /\ UNCHANGED <<mainVars, pureVars>>)

\* AllocSpec: every task calls run_script or run_script_on_file at the same
\* time and runs temp_script_path, in every interleaving of the clock reads
\* and the fetch_adds.
AllocNext ==
    \/ \E t \in Tasks, k \in {"run_script", "run_script_on_file"} :
          Call(t, k) /\ UNCHANGED <<mainVars, pureVars>>
    \/ \E t \in Tasks : ReadClock(t) /\ UNCHANGED <<mainVars, pureVars>>
    \/ \E t \in Tasks : FetchAdd(t) /\ UNCHANGED <<mainVars, pureVars>>

AllocSpec == Init /\ [][AllocNext]_vars

\* ConcSpec: two requests are handled at the same time by tasks 1 and 2,
\* each a run_script or a run_script_on_file from its first step to its
\* return.  What a child does is its own and Spec covers it: here a child
\* writes nothing, has no descendant, and either exits or outlasts the
\* timeout; the clock reads the same for both (AllocSpec has the others),
\* so that their paths differ by the count alone.
Concurrent == {1, 2}

ConcNext ==
    \/ \E t \in Concurrent, k \in {"run_script", "run_script_on_file"} :
          /\ COUNTER < MaxCalls
          /\ Call(t, k)
          /\ UNCHANGED <<mainVars, pureVars>>
    \/ \E t \in Concurrent :
          /\ SupervisorStep(t)
          /\ output'[t] = Zero
          /\ behaviour'[t] \in {"none", "slow"}
          /\ ts'[t] = 0
          /\ child'[t] = "reaped" => ~wopen'[t]
          /\ UNCHANGED <<mainVars, pureVars>>
    \/ \E t \in Concurrent :
          /\ ChildExit(t)
          /\ ~wopen'[t]
          /\ status'[t].kind = "exited"
          /\ UNCHANGED <<mainVars, pureVars>>
    \/ \E t \in Concurrent : TimeoutElapses(t) /\ UNCHANGED <<mainVars, pureVars>>
    \/ \E t \in Concurrent : WaitFails(t) /\ UNCHANGED <<mainVars, pureVars>>
    \/ \E t \in Concurrent : Finish(t) /\ UNCHANGED <<mainVars, pureVars>>

ConcSpec == Init /\ [][ConcNext]_vars

\* ------------------------------------------------- strings and characters
\* A string is the sequence of its characters, each its code point.

NUL == 0
LF == 10
CR == 13
DQUOTE == 34
SLASH == 47
BACKSLASH == 92

\* The strings over `alphabet` of at most n characters.
RECURSIVE StringsUpTo(_, _)
StringsUpTo(alphabet, n) ==
    IF n = 0 THEN {<<>>}
    ELSE LET shorter == StringsUpTo(alphabet, n - 1)
         IN shorter \cup {Append(w, c) : w \in shorter, c \in alphabet}

\* str::replace(from: char, to: &str): every occurrence of the character.
RECURSIVE Replace(_, _, _)
Replace(s, from, to) ==
    IF s = <<>> THEN <<>>
    ELSE (IF Head(s) = from THEN to ELSE <<Head(s)>>) \o Replace(Tail(s), from, to)

\* str::replacen(from, to, 1): the first occurrence only.
RECURSIVE ReplaceFirst(_, _, _)
ReplaceFirst(s, from, to) ==
    IF s = <<>> THEN <<>>
    ELSE IF Head(s) = from THEN to \o Tail(s)
    ELSE <<Head(s)>> \o ReplaceFirst(Tail(s), from, to)

\* ------------------------------------------------------ Lua string helpers

\* lua_string with the double quote escaped before the backslash.
lua_string_quote_first(s) ==
    LET a == Replace(s, DQUOTE, <<BACKSLASH, DQUOTE>>)
        b == Replace(a, BACKSLASH, <<BACKSLASH, BACKSLASH>>)
        c == Replace(b, LF, <<BACKSLASH, 110>>)
        d == Replace(c, CR, <<BACKSLASH, 114>>)
        e == Replace(d, NUL, <<BACKSLASH, 48>>)
    IN <<DQUOTE>> \o e \o <<DQUOTE>>

\* lua_string: five replace passes in this order, then format!("\"{}\"", ..).
lua_string(s) ==
    LET a == Replace(s, BACKSLASH, <<BACKSLASH, BACKSLASH>>)
        b == Replace(a, DQUOTE, <<BACKSLASH, DQUOTE>>)
        c == Replace(b, LF, <<BACKSLASH, 110>>)
        d == Replace(c, CR, <<BACKSLASH, 114>>)
        e == Replace(d, NUL, <<BACKSLASH, 48>>)
    IN <<DQUOTE>> \o e \o <<DQUOTE>>

\* (normalize_path_first_only: replacen(.., 1).)
normalize_path_first_only(path) == ReplaceFirst(path, BACKSLASH, <<SLASH>>)
\* normalize_path: path.replace('\\', "/")
normalize_path(path) == Replace(path, BACKSLASH, <<SLASH>>)

\* lua_path: lua_string(&normalize_path(path))
lua_path(path) == lua_string(normalize_path(path))

\* ----------------------------------------------- Lua's string-literal grammar
\* The lexer of Lua (Reference Manual 3.1; llex.c, read_string) for a literal
\* delimited by double quotes: a raw line break ends it in error, a backslash
\* starts an escape, \ddd is up to three decimal digits naming one byte.
\* (\x, \z and \u{} are left out: lua_string never writes them.)

IsDigit(c) == c \in 48..57
LuaError == [ok |-> FALSE, value |-> <<>>, rest |-> <<>>]

\* The escape whose characters after the backslash are at the head of s:
\* the byte it denotes and what follows it.
LuaEscape(s) ==
    IF s = <<>> THEN LuaError
    ELSE LET c == Head(s)
             t == Tail(s)
         IN CASE c = 110 -> [ok |-> TRUE, value |-> <<LF>>, rest |-> t]
              [] c = 114 -> [ok |-> TRUE, value |-> <<CR>>, rest |-> t]
              [] c = BACKSLASH -> [ok |-> TRUE, value |-> <<BACKSLASH>>, rest |-> t]
              [] c = DQUOTE -> [ok |-> TRUE, value |-> <<DQUOTE>>, rest |-> t]
              [] c = 39 -> [ok |-> TRUE, value |-> <<39>>, rest |-> t]
              [] c = 97 -> [ok |-> TRUE, value |-> <<7>>, rest |-> t]
              [] c = 98 -> [ok |-> TRUE, value |-> <<8>>, rest |-> t]
              [] c = 102 -> [ok |-> TRUE, value |-> <<12>>, rest |-> t]
              [] c = 116 -> [ok |-> TRUE, value |-> <<9>>, rest |-> t]
              [] c = 118 -> [ok |-> TRUE, value |-> <<11>>, rest |-> t]
              [] c = LF \/ c = CR -> [ok |-> TRUE, value |-> <<LF>>, rest |-> t]
              [] IsDigit(c) ->
                   LET n == IF Len(t) >= 2 /\ IsDigit(t[1]) /\ IsDigit(t[2]) THEN 3
                            ELSE IF Len(t) >= 1 /\ IsDigit(t[1]) THEN 2
                            ELSE 1
                       v == IF n = 3
                            THEN (c - 48) * 100 + (t[1] - 48) * 10 + (t[2] - 48)
                            ELSE IF n = 2 THEN (c - 48) * 10 + (t[1] - 48)
                            ELSE c - 48
                   IN IF v > 255 THEN LuaError
                      ELSE [ok |-> TRUE, value |-> <<v>>,
                            rest |-> SubSeq(t, n, Len(t))]
              [] OTHER -> LuaError

\* The characters after the opening quote: the string read up to the closing
\* quote, and what follows the closing quote.
RECURSIVE LuaReadString(_, _)
LuaReadString(s, acc) ==
    IF s = <<>> THEN LuaError
    ELSE LET c == Head(s)
         IN CASE c = DQUOTE -> [ok |-> TRUE, value |-> acc, rest |-> Tail(s)]
              [] c = LF \/ c = CR -> LuaError
              [] c = BACKSLASH ->
                   LET e == LuaEscape(Tail(s))
                   IN IF e.ok THEN LuaReadString(e.rest, acc \o e.value)
                      ELSE LuaError
              [] OTHER -> LuaReadString(Tail(s), Append(acc, c))

\* The value of `literal` when it is exactly one double-quoted literal.
LuaDecode(literal) ==
    IF literal = <<>> \/ Head(literal) # DQUOTE THEN LuaError
    ELSE LET r == LuaReadString(Tail(literal), <<>>)
         IN IF r.ok /\ r.rest = <<>> THEN r ELSE LuaError

\* ------------------------------------------------ ScriptOutput::result_text

\* char::is_whitespace (White_Space) among the characters below 256.
IsWhitespace(c) == c \in {9, 10, 11, 12, 13, 32, 133, 160}

RECURSIVE TrimStart(_)
TrimStart(s) ==
    IF s # <<>> /\ IsWhitespace(Head(s)) THEN TrimStart(Tail(s)) ELSE s

RECURSIVE TrimEnd(_)
TrimEnd(s) ==
    IF s # <<>> /\ IsWhitespace(s[Len(s)])
    THEN TrimEnd(SubSeq(s, 1, Len(s) - 1)) ELSE s

\* str::trim
Trim(s) == TrimEnd(TrimStart(s))

\* "Operation completed successfully."
MsgCompleted == <<79, 112, 101, 114, 97, 116, 105, 111, 110, 32, 99, 111, 109, 112, 108, 101, 116, 101, 100, 32, 115, 117, 99, 99, 101, 115, 115, 102, 117, 108, 108, 121, 46>>
\* "Unknown error occurred"
MsgUnknown == <<85, 110, 107, 110, 111, 119, 110, 32, 101, 114, 114, 111, 114, 32, 111, 99, 99, 117, 114, 114, 101, 100>>
\* "Error: "
ErrorPrefix == <<69, 114, 114, 111, 114, 58, 32>>

\* result_text testing stdout.is_empty() where the code tests the trimmed text.
result_text_untrimmed_test(o) ==
    IF o.success
    THEN IF o.stdout = <<>> THEN MsgCompleted ELSE Trim(o.stdout)
    ELSE LET err_msg == IF Trim(o.stderr) # <<>> THEN Trim(o.stderr)
                        ELSE IF Trim(o.stdout) # <<>> THEN Trim(o.stdout)
                        ELSE MsgUnknown
         IN ErrorPrefix \o err_msg

\* result_text taking stdout before stderr as the text of a failure.
result_text_stdout_first(o) ==
    IF o.success
    THEN IF Trim(o.stdout) = <<>> THEN MsgCompleted ELSE Trim(o.stdout)
    ELSE LET err_msg == IF Trim(o.stdout) # <<>> THEN Trim(o.stdout)
                        ELSE IF Trim(o.stderr) # <<>> THEN Trim(o.stderr)
                        ELSE MsgUnknown
         IN ErrorPrefix \o err_msg

result_text(o) ==
    IF o.success
    THEN IF Trim(o.stdout) = <<>> THEN MsgCompleted ELSE Trim(o.stdout)
    ELSE LET err_msg == IF Trim(o.stderr) # <<>> THEN Trim(o.stderr)
                        ELSE IF Trim(o.stdout) # <<>> THEN Trim(o.stdout)
                        ELSE MsgUnknown
         IN ErrorPrefix \o err_msg

\* --------------------------------------------- the helpers, applied to inputs

\* Longest input string.
MaxLen == 3

\* NUL, line feed, carriage return, double quote, slash, the digit 1,
\* backslash and the letter n.
ScriptChars == {NUL, LF, CR, DQUOTE, SLASH, 49, BACKSLASH, 110}
\* line feed, space and the letter h.
TextChars == {LF, 32, 104}

ApplyLuaString ==
    /\ op = "none"
    /\ ret' = lua_string(arg)
    /\ op' = "lua_string"
    /\ UNCHANGED <<arg, runnerVars, mainVars>>

ApplyNormalizePath ==
    /\ op = "none"
    /\ ret' = normalize_path(arg)
    /\ op' = "normalize_path"
    /\ UNCHANGED <<arg, runnerVars, mainVars>>

ApplyLuaPath ==
    /\ op = "none"
    /\ ret' = lua_path(arg)
    /\ op' = "lua_path"
    /\ UNCHANGED <<arg, runnerVars, mainVars>>

TextInit ==
    /\ RunnerInit
    /\ arg \in StringsUpTo(ScriptChars, MaxLen)
    /\ ret = <<>>
    /\ op = "none"

TextNext == ApplyLuaString \/ ApplyNormalizePath \/ ApplyLuaPath

SpecText == TextInit /\ [][TextNext]_vars

ApplyResultText ==
    /\ op = "none"
    /\ ret' = result_text(arg)
    /\ op' = "result_text"
    /\ UNCHANGED <<arg, runnerVars, mainVars>>

ResultInit ==
    /\ RunnerInit
    /\ arg \in [stdout : StringsUpTo(TextChars, MaxLen),
                stderr : StringsUpTo(TextChars, MaxLen),
                success : BOOLEAN]
    /\ ret = <<>>
    /\ op = "none"

ResultNext == ApplyResultText

SpecResult == ResultInit /\ [][ResultNext]_vars

\* ------------------------------------------------------- colours (utils.rs)

SHARP == 35
PLUS == 43
\* The second byte of a two-byte UTF-8 character (never a hex digit).
CONT == -1

\* A &str as its UTF-8 bytes: a character below 128 is one byte, the others
\* modelled (128..2047) are two.
RECURSIVE Bytes(_)
Bytes(s) ==
    IF s = <<>> THEN <<>>
    ELSE (IF Head(s) < 128 THEN <<Head(s)>> ELSE <<Head(s), CONT>>)
         \o Bytes(Tail(s))

\* str::trim_start_matches('#')
RECURSIVE TrimSharps(_)
TrimSharps(s) ==
    IF s # <<>> /\ Head(s) = SHARP THEN TrimSharps(Tail(s)) ELSE s

\* char::is_ascii_hexdigit
IsHexDigit(c) == c \in (48..57) \cup (65..70) \cup (97..102)
HexValue(c) == IF c \in 48..57 THEN c - 48
               ELSE IF c \in 65..70 THEN c - 55 ELSE c - 87

\* str::is_char_boundary on the bytes b, at byte offset i.
IsCharBoundary(b, i) == i = 0 \/ i = Len(b) \/ (i < Len(b) /\ b[i + 1] # CONT)

\* &hex[from..to] panics when an end is beyond the string or inside a
\* character.
SliceOk(b, from, to) ==
    to <= Len(b) /\ IsCharBoundary(b, from) /\ IsCharBoundary(b, to)

\* u8::from_str_radix(&hex[from..to], 16).unwrap_or(default), for a slice of
\* two bytes: two hex digits, or a plus sign and one hex digit.
HexByte(b, from, default) ==
    LET hi == b[from + 1]
        lo == b[from + 2]
    IN IF IsHexDigit(hi) /\ IsHexDigit(lo) THEN 16 * HexValue(hi) + HexValue(lo)
       ELSE IF hi = PLUS /\ IsHexDigit(lo) THEN HexValue(lo)
       ELSE default

\* The thread panicked: the call returned no value.
Panic == [panic |-> TRUE]

\* (validate_hex_color looking at the length alone.)
validate_hex_color_length_only(hex) ==
    LET h == TrimSharps(hex)
        n == Len(Bytes(h))
    IN IF n # 6 /\ n # 8 THEN [ok |-> FALSE, err |-> "length"]
       ELSE [ok |-> TRUE]

validate_hex_color(hex) ==
    LET h == TrimSharps(hex)
        n == Len(Bytes(h))
    IN IF n # 6 /\ n # 8 THEN [ok |-> FALSE, err |-> "length"]
       ELSE IF ~(\A i \in 1..Len(h) : IsHexDigit(h[i]))
            THEN [ok |-> FALSE, err |-> "non-hex"]
       ELSE [ok |-> TRUE]

parse_hex_color(hex) ==
    LET b == Bytes(TrimSharps(hex))
    IN IF ~SliceOk(b, 0, 2) \/ ~SliceOk(b, 2, 4) \/ ~SliceOk(b, 4, 6)
       THEN Panic
       ELSE [r |-> HexByte(b, 0, 0), g |-> HexByte(b, 2, 0),
             b |-> HexByte(b, 4, 0)]

parse_hex_color_with_alpha(hex) ==
    LET b == Bytes(TrimSharps(hex))
    IN IF ~SliceOk(b, 0, 2) \/ ~SliceOk(b, 2, 4) \/ ~SliceOk(b, 4, 6)
       THEN Panic
       ELSE IF Len(b) >= 8 /\ ~SliceOk(b, 6, 8) THEN Panic
       ELSE [r |-> HexByte(b, 0, 0), g |-> HexByte(b, 2, 0),
             b |-> HexByte(b, 4, 0),
             a |-> IF Len(b) >= 8 THEN HexByte(b, 6, 255) ELSE 255]

\* tools::palette::set_palette_color for a request with one palette entry:
\* the colour is parsed unvalidated, then the script that sets it is run on
\* the file.
set_palette_color(color) ==
    LET c == parse_hex_color_with_alpha(color)
    IN IF c = Panic THEN Panic
       ELSE [handler |-> "execute_script_on_file", set_code |-> c]

\* Longest colour string, leading sharps aside.
MaxHexLen == 8
\* The digit 1, the letter f and e-acute (two bytes in UTF-8).
ColorChars == {49, 102, 233}
\* Six and eight hex digits with the letter g in one place.
OneNonHex ==
    UNION {{[h EXCEPT ![i] = 103] : i \in DOMAIN h} :
              h \in {<<102, 102, 102, 102, 102, 102>>,
                     <<102, 102, 102, 102, 102, 102, 102, 102>>}}
\* No sharp, one, or two.
Sharps == {<<>>, <<SHARP>>, <<SHARP, SHARP>>}

ApplyValidateHexColor ==
    /\ op = "none"
    /\ ret' = validate_hex_color(arg)
    /\ op' = "validate_hex_color"
    /\ UNCHANGED <<arg, runnerVars, mainVars>>

ApplyParseHexColor ==
    /\ op = "none"
    /\ ret' = parse_hex_color(arg)
    /\ op' = "parse_hex_color"
    /\ UNCHANGED <<arg, runnerVars, mainVars>>

ApplyParseHexColorWithAlpha ==
    /\ op = "none"
    /\ ret' = parse_hex_color_with_alpha(arg)
    /\ op' = "parse_hex_color_with_alpha"
    /\ UNCHANGED <<arg, runnerVars, mainVars>>

ApplySetPaletteColor ==
    /\ op = "none"
    /\ ret' = set_palette_color(arg)
    /\ op' = "set_palette_color"
    /\ UNCHANGED <<arg, runnerVars, mainVars>>

ColorInit ==
    /\ RunnerInit
    /\ arg \in {p \o h : p \in Sharps,
                          h \in StringsUpTo(ColorChars, MaxHexLen) \cup OneNonHex}
    /\ ret = <<>>
    /\ op = "none"

ColorNext ==
    \/ ApplyValidateHexColor
    \/ ApplyParseHexColor
    \/ ApplyParseHexColorWithAlpha
    \/ ApplySetPaletteColor

SpecColor == ColorInit /\ [][ColorNext]_vars

\* ------------------------------------------- discovery (find_aseprite)

\* The value of ASEPRITE_PATH when it is set, and env::var failing.
OverridePath == "/custom/aseprite"
Unset == "unset"

WindowsCandidates ==
    <<"C:\\Program Files\\Aseprite\\Aseprite.exe",
      "C:\\Program Files (x86)\\Steam\\steamapps\\common\\Aseprite\\Aseprite.exe",
      "C:\\Program Files\\Steam\\steamapps\\common\\Aseprite\\Aseprite.exe">>
MacPath == "/Applications/Aseprite.app/Contents/MacOS/aseprite"
\* $HOME is /home/u.
SteamPath == "/home/u/.steam/debian-installation/steamapps/common/Aseprite/aseprite"

\* What `which aseprite` / `where aseprite` may print: nothing, one path, or
\* two paths on two lines.  WholeOutput is the trimmed output of two lines
\* taken as one path.
FirstLine == "/usr/bin/aseprite"
SecondLine == "/opt/aseprite/aseprite"
WholeOutput == "/usr/bin/aseprite\n/opt/aseprite/aseprite"
Outputs == {<<>>, <<FirstLine>>, <<FirstLine, SecondLine>>}

Platforms == {"windows", "macos", "linux"}

AllPaths ==
    {OverridePath, MacPath, SteamPath, FirstLine, SecondLine, WholeOutput}
    \cup {WindowsCandidates[i] : i \in DOMAIN WindowsCandidates}

\* The environment discovery looks at: the platform the binary was built
\* for, ASEPRITE_PATH, the paths that exist, and the lookup command (whether
\* it ran with success, and what it printed).
Envs ==
    [platform : Platforms,
     ASEPRITE_PATH : {Unset, OverridePath},
     exists : SUBSET AllPaths,
     lookup : [success : BOOLEAN, lines : Outputs]]

Found(path) == [ok |-> TRUE, path |-> path]
\* bail!("Could not find Aseprite executable. ...")
NotFound == [ok |-> FALSE]

\* The first path of candidates that exists.
RECURSIVE FirstExisting(_, _)
FirstExisting(candidates, exists) ==
    IF candidates = <<>> THEN NotFound
    ELSE IF Head(candidates) \in exists THEN Found(Head(candidates))
    ELSE FirstExisting(Tail(candidates), exists)

\* The path each platform takes from the lookup command, if any: Windows the
\* first line of `where`, Linux the whole trimmed output of `which`.
WhereCandidate(e) ==
    IF e.lookup.success /\ e.lookup.lines # <<>>
    THEN <<Head(e.lookup.lines)>> ELSE <<>>
WhichCandidate(e) ==
    IF ~e.lookup.success \/ e.lookup.lines = <<>> THEN <<>>
    ELSE IF Len(e.lookup.lines) = 1 THEN <<FirstLine>> ELSE <<WholeOutput>>

\* Step 2 of find_aseprite, one block per target_os.
PlatformCandidates(e) ==
    CASE e.platform = "windows" -> WindowsCandidates \o WhereCandidate(e)
      [] e.platform = "macos" -> <<MacPath>>
      [] e.platform = "linux" -> WhichCandidate(e) \o <<SteamPath>>

\* find_aseprite giving up when ASEPRITE_PATH names a path that is not there.
find_aseprite_strict(e) ==
    IF e.ASEPRITE_PATH # Unset
    THEN FirstExisting(<<e.ASEPRITE_PATH>>, e.exists)
    ELSE FirstExisting(PlatformCandidates(e), e.exists)

find_aseprite(e) ==
    IF e.ASEPRITE_PATH # Unset /\ e.ASEPRITE_PATH \in e.exists
    THEN Found(e.ASEPRITE_PATH)
    ELSE FirstExisting(PlatformCandidates(e), e.exists)

ApplyFindAseprite ==
    /\ op = "none"
    /\ ret' = find_aseprite(arg)
    /\ op' = "find_aseprite"
    /\ UNCHANGED <<arg, runnerVars, mainVars>>

DiscoverInit ==
    /\ RunnerInit
    /\ arg \in Envs
    /\ ret = <<>>
    /\ op = "none"

DiscoverNext == ApplyFindAseprite

SpecDiscover == DiscoverInit /\ [][DiscoverNext]_vars

\* ------------------------------------------------------- startup (main)

\* A field of the Runner before new() has produced it.
Unassigned == ""

\* The environments main is started in (StartSpec): a Linux build with no
\* `which` and no Steam installation, ASEPRITE_PATH set or not, its path
\* there or not.
StartEnvs ==
    {e \in Envs : /\ e.platform = "linux"
                  /\ e.lookup = [success |-> FALSE, lines |-> <<>>]
                  /\ e.exists \subseteq {OverridePath}}

\* (DiscoverLazily: new() going on without an executable when discovery
\* fails, leaving the search to later.)
DiscoverLazily ==
    /\ phase = "start"
    /\ \E e \in StartEnvs :
          LET found == find_aseprite(e)
          IN /\ exe_path' = IF found.ok THEN found.path ELSE exe_path
             /\ phase' = "found"
             /\ exe_exists' = found.ok
    /\ discoveries' = discoveries + 1
    /\ UNCHANGED <<temp_dir, mkdirs, runnerVars, pureVars>>

\* main -> AsepriteServer::new -> AsepriteRunner::new: find_aseprite()?
\* A failure goes up through every `?` and main returns the error.
Discover ==
    /\ phase = "start"
    /\ \E e \in StartEnvs :
          LET found == find_aseprite(e)
          IN /\ IF found.ok
                THEN exe_path' = found.path /\ phase' = "found"
                ELSE phase' = "exited" /\ UNCHANGED exe_path
             /\ exe_exists' = found.ok
    /\ discoveries' = discoveries + 1
    /\ UNCHANGED <<temp_dir, mkdirs, runnerVars, pureVars>>

\* std::fs::create_dir_all(&temp_dir).context(..)?, then Ok(Self { .. }).
CreateTempDir ==
    /\ phase = "found"
    /\ mkdirs' = mkdirs + 1
    /\ \/ temp_dir' = TempDir /\ phase' = "constructed"
       \/ phase' = "exited" /\ UNCHANGED temp_dir
    /\ UNCHANGED <<exe_path, discoveries, exe_exists, runnerVars, pureVars>>

\* server.serve(transport).await?: from here on requests are accepted.
Serve ==
    /\ phase = "constructed"
    /\ phase' \in {"serving", "exited"}
    /\ UNCHANGED <<exe_path, temp_dir, discoveries, mkdirs, exe_exists,
                   runnerVars, pureVars>>

StartInit ==
    /\ IdleTasks
    /\ PureIdle
    /\ phase = "start"
    /\ exe_path = Unassigned
    /\ temp_dir = Unassigned
    /\ discoveries = 0
    /\ mkdirs = 0
    /\ exe_exists = FALSE

\* StartSpec: the process from the first line of main; once it serves,
\* requests arrive and are handled as in Spec.
StartNext ==
    \/ Discover
    \/ CreateTempDir
    \/ Serve
    \/ phase = "serving" /\ Next

StartSpec == StartInit /\ [][StartNext]_vars

\* ------------------------------------------------- the child's command

\* "--batch" and "--script", as sequences of characters like the paths.
BATCH == <<"-", "-", "b", "a", "t", "c", "h">>
SCRIPT == <<"-", "-", "s", "c", "r", "i", "p", "t">>

\* Command::new(&self.exe_path) ... .stdout(Stdio::piped()).stderr(Stdio::piped())
Piped(program, args) ==
    [program |-> program, args |-> args, stdout |-> "piped", stderr |-> "piped"]

\* (The command of run_script_on_file with the script before the file.)
run_script_on_file_command_script_first(exe, file_path, path) ==
    Piped(exe, <<BATCH, SCRIPT, path, file_path>>)

\* .args(["--batch", "--script"]).arg(&script_path)
run_script_command(exe, path) == Piped(exe, <<BATCH, SCRIPT, path>>)
\* .arg("--batch").arg(file_path).arg("--script").arg(&script_path)
run_script_on_file_command(exe, file_path, path) ==
    Piped(exe, <<BATCH, file_path, SCRIPT, path>>)
\* .arg("--batch").args(args)
run_cli_command(exe, args) == Piped(exe, <<BATCH>> \o args)

\* The command an invocation of kind k builds from its inputs.
CommandOf(k, exe, file_path, path, args) ==
    CASE k = "run_script" -> run_script_command(exe, path)
      [] k = "run_script_on_file" -> run_script_on_file_command(exe, file_path, path)
      [] k = "run_cli" -> run_cli_command(exe, args)

\* Caller-supplied file paths and arguments: a sprite, the empty string, and
\* text that reads like a flag.
FilePaths == {<<"a", ".", "a", "s", "e">>, <<>>, SCRIPT}
CliWords == {<<"a", ".", "a", "s", "e">>, BATCH, SCRIPT}
\* Most arguments a caller passes to run_cli.
MaxArgs == 2
ArgLists == StringsUpTo(CliWords, MaxArgs)
ScriptPaths == {TempPath(n, c) : n \in Timestamps, c \in 0..MaxCalls}

ApplyCommand ==
    /\ op = "none"
    /\ ret' = CommandOf(arg.kind, exe_path, arg.file_path, arg.script_path,
                        arg.args)
    /\ op' = "command"
    /\ UNCHANGED <<arg, runnerVars, mainVars>>

CommandInit ==
    /\ RunnerInit
    /\ arg \in [kind : {"run_script", "run_script_on_file", "run_cli"},
                file_path : FilePaths,
                script_path : ScriptPaths,
                args : ArgLists]
    /\ ret = <<>>
    /\ op = "none"

CommandNext == ApplyCommand

SpecCommand == CommandInit /\ [][CommandNext]_vars

\* The file exe_path names is removed (Aseprite is uninstalled or moved)
\* while the server runs.
RemoveExe ==
    /\ exe_exists
    /\ exe_exists' = FALSE
    /\ UNCHANGED <<phase, exe_path, temp_dir, discoveries, mkdirs, runnerVars,
                   pureVars>>

\* UninstallSpec: Spec, with the executable removed at any moment.
UninstallNext == Next \/ RemoveExe

UninstallSpec == Init /\ [][UninstallNext]_vars

\* ------------------------------------------- the server's helpers

\* "Failed to write temporary Lua script"
MsgWriteFailed == <<70, 97, 105, 108, 101, 100, 32, 116, 111, 32, 119, 114, 105, 116, 101, 32, 116, 101, 109, 112, 111, 114, 97, 114, 121, 32, 76, 117, 97, 32, 115, 99, 114, 105, 112, 116>>
\* "Failed to spawn Aseprite process"
MsgSpawnFailed == <<70, 97, 105, 108, 101, 100, 32, 116, 111, 32, 115, 112, 97, 119, 110, 32, 65, 115, 101, 112, 114, 105, 116, 101, 32, 112, 114, 111, 99, 101, 115, 115>>
\* "Failed to wait for Aseprite process"
MsgWaitFailed == <<70, 97, 105, 108, 101, 100, 32, 116, 111, 32, 119, 97, 105, 116, 32, 102, 111, 114, 32, 65, 115, 101, 112, 114, 105, 116, 101, 32, 112, 114, 111, 99, 101, 115, 115>>
\* "Aseprite process timed out after 60 seconds. The operation may be too complex or Aseprite may be unresponsive."
MsgTimedOut == <<65, 115, 101, 112, 114, 105, 116, 101, 32, 112, 114, 111, 99, 101, 115, 115, 32, 116, 105, 109, 101, 100, 32, 111, 117, 116, 32, 97, 102, 116, 101, 114, 32, 54, 48, 32, 115, 101, 99, 111, 110, 100, 115, 46, 32, 84, 104, 101, 32, 111, 112, 101, 114, 97, 116, 105, 111, 110, 32, 109, 97, 121, 32, 98, 101, 32, 116, 111, 111, 32, 99, 111, 109, 112, 108, 101, 120, 32, 111, 114, 32, 65, 115, 101, 112, 114, 105, 116, 101, 32, 109, 97, 121, 32, 98, 101, 32, 117, 110, 114, 101, 115, 112, 111, 110, 115, 105, 118, 101, 46>>
\* "Failed to execute script: "
ScriptPrefix == <<70, 97, 105, 108, 101, 100, 32, 116, 111, 32, 101, 120, 101, 99, 117, 116, 101, 32, 115, 99, 114, 105, 112, 116, 58, 32>>
\* "CLI execution failed: "
CliPrefix == <<67, 76, 73, 32, 101, 120, 101, 99, 117, 116, 105, 111, 110, 32, 102, 97, 105, 108, 101, 100, 58, 32>>

\* format!("{}", e) of the runner's error: the message of its outermost
\* context.
ErrorMessage(e) ==
    CASE e = "WriteFailed" -> MsgWriteFailed
      [] e = "SpawnFailed" -> MsgSpawnFailed
      [] e = "WaitFailed" -> MsgWaitFailed
      [] e = "TimedOut" -> MsgTimedOut

Ok(text) == [tag |-> "Ok", text |-> text]
Err(text) == [tag |-> "Err", text |-> text]

\* (execute_script not looking at success.)
execute_script_any_outcome_ok(r) ==
    IF r.tag = "Ok" THEN Ok(result_text(r))
    ELSE Err(ScriptPrefix \o ErrorMessage(r.error))

\* AsepriteServer::execute_script, applied to what run_script returned.
execute_script(r) ==
    IF r.tag = "Ok"
    THEN IF r.success THEN Ok(result_text(r)) ELSE Err(result_text(r))
    ELSE Err(ScriptPrefix \o ErrorMessage(r.error))

\* AsepriteServer::execute_script_on_file, applied to what
\* run_script_on_file returned.
execute_script_on_file(r) ==
    IF r.tag = "Ok"
    THEN IF r.success THEN Ok(result_text(r)) ELSE Err(result_text(r))
    ELSE Err(ScriptPrefix \o ErrorMessage(r.error))

\* tools::scripting::execute_cli, applied to what run_cli returned.
execute_cli(r) ==
    IF r.tag = "Ok"
    THEN IF r.success THEN Ok(result_text(r)) ELSE Err(result_text(r))
    ELSE Err(CliPrefix \o ErrorMessage(r.error))

\* What a runner call returns: an outcome with its texts, or an error
\* (run_cli writes no file).
RunnerReturns(errors) ==
    [tag : {"Ok"}, stdout : StringsUpTo(TextChars, MaxLen),
     stderr : StringsUpTo(TextChars, MaxLen), success : BOOLEAN]
    \cup {[tag |-> "Err", error |-> e] : e \in errors}

ApplyExecuteScript ==
    /\ op = "none"
    /\ ret' = execute_script(arg)
    /\ op' = "execute_script"
    /\ UNCHANGED <<arg, runnerVars, mainVars>>

ApplyExecuteScriptOnFile ==
    /\ op = "none"
    /\ ret' = execute_script_on_file(arg)
    /\ op' = "execute_script_on_file"
    /\ UNCHANGED <<arg, runnerVars, mainVars>>

ApplyExecuteCli ==
    /\ op = "none"
    /\ arg.tag = "Err" => arg.error # "WriteFailed"
    /\ ret' = execute_cli(arg)
    /\ op' = "execute_cli"
    /\ UNCHANGED <<arg, runnerVars, mainVars>>

ServerInit ==
    /\ RunnerInit
    /\ arg \in RunnerReturns({"WriteFailed", "SpawnFailed", "WaitFailed",
                              "TimedOut"})
    /\ ret = <<>>
    /\ op = "none"

ServerNext ==
    \/ ApplyExecuteScript
    \/ ApplyExecuteScriptOnFile
    \/ ApplyExecuteCli

SpecServer == ServerInit /\ [][ServerNext]_vars

\* ------------------------------------------------- the tools that validate
\* A tool handler checks its parameters, builds a Lua script and hands it to
\* execute_script or execute_script_on_file; a rejected request returns
\* before the script is built.

\* The handler reached its call of the server helper `fn`.
Run(fn) == [tag |-> "Run", fn |-> fn]

\* str::to_lowercase on ASCII letters.
to_lowercase(s) ==
    [i \in 1..Len(s) |-> IF s[i] \in 65..90 THEN s[i] + 32 ELSE s[i]]

HORIZONTAL == <<104, 111, 114, 105, 122, 111, 110, 116, 97, 108>>
VERTICAL == <<118, 101, 114, 116, 105, 99, 97, 108>>
RGB == <<114, 103, 98>>
GRAYSCALE == <<103, 114, 97, 121, 115, 99, 97, 108, 101>>
INDEXED == <<105, 110, 100, 101, 120, 101, 100>>

create_sprite(p) ==
    IF p.width = 0 \/ p.height = 0
    THEN Err("Width and height must be greater than 0")
    ELSE IF Trim(p.output_path) = <<>>
    THEN Err("Output path cannot be empty")
    ELSE Run("execute_script")

flip_sprite(p) ==
    IF to_lowercase(p.direction) \notin {HORIZONTAL, VERTICAL}
    THEN Err("direction must be 'horizontal' or 'vertical'")
    ELSE Run("execute_script_on_file")

\* (rotate_sprite passing every angle on.)
rotate_sprite_any_angle(p) ==
    Run("execute_script_on_file")

rotate_sprite(p) ==
    IF p.angle # 90 /\ p.angle # 180 /\ p.angle # 270
    THEN Err("angle must be 90, 180, or 270")
    ELSE Run("execute_script_on_file")

change_color_mode(p) ==
    IF to_lowercase(p.color_mode) \notin {RGB, GRAYSCALE, INDEXED}
    THEN Err("color_mode must be 'rgb', 'grayscale', or 'indexed'")
    ELSE Run("execute_script_on_file")

\* The first index of `colors` that validate_hex_color rejects, 0 if none.
FirstInvalid(colors) ==
    LET bad == {i \in DOMAIN colors : ~validate_hex_color(colors[i]).ok}
    IN IF bad = {} THEN 0 ELSE CHOOSE i \in bad : \A j \in bad : i <= j

\* A pixel is its colour here: x and y go into the script unexamined.
draw_pixels(p) ==
    IF Len(p.pixels) = 0 THEN Err("Pixels array cannot be empty")
    ELSE LET i == FirstInvalid(p.pixels)
             pixel_code ==
                 [j \in DOMAIN p.pixels |->
                     parse_hex_color_with_alpha(p.pixels[j])]
         IN IF i # 0
            THEN Err(<<"Invalid pixel color", p.pixels[i],
                       validate_hex_color(p.pixels[i]).err>>)
            ELSE IF \E j \in DOMAIN pixel_code : pixel_code[j] = Panic
            THEN Panic
            ELSE Run("execute_script_on_file")

\* p.points is the number of points given.
use_tool(p) ==
    IF p.points = 0 THEN Err("Points array cannot be empty")
    ELSE IF ~validate_hex_color(p.color).ok
    THEN Err(<<"Invalid color", p.color, validate_hex_color(p.color).err>>)
    ELSE IF parse_hex_color_with_alpha(p.color) = Panic THEN Panic
    ELSE Run("execute_script_on_file")

resize_palette(p) ==
    IF p.size = 0 THEN Err("Palette size must be greater than 0")
    ELSE Run("execute_script_on_file")

\* The runner operation behind a server helper.
RunnerKind(fn) ==
    IF fn = "execute_script" THEN "run_script" ELSE "run_script_on_file"

\* Task t handles a request for `tool` with parameters p, and r is what
\* the handler's code before the runner call comes to: an Err returned at
\* once, or the call, which starts the runner operation.
Handle(t, tool, p, r) ==
    /\ pc[t] = "idle"
    /\ arg' = p
    /\ op' = tool
    /\ ret' = r
    /\ IF r = Panic \/ r.tag = "Err"
       THEN UNCHANGED runnerVars
       ELSE /\ COUNTER < MaxCalls
            /\ Call(t, RunnerKind(r.fn))

\* The requests: a blank, a one-space and a one-letter path; mixed case and
\* unknown words; a good colour, a short one and one of no hex digit.
Paths == {<<>>, <<32>>, <<97>>}
Directions == {HORIZONTAL, <<86, 101, 114, 116, 105, 99, 97, 108>>,
               <<100, 105, 97, 103, 111, 110, 97, 108>>}
Angles == {0, 45, 90, 180, 270}
ColorModes == {RGB, GRAYSCALE, <<73, 110, 100, 101, 120, 101, 100>>,
               <<99, 109, 121, 107>>}
Colors == {<<35, 102, 102, 48, 48, 48, 48>>, <<35, 102, 102>>,
           <<103, 103, 103, 103, 103, 103>>}
MaxPixels == 2

CreateSprite(t) ==
    \E p \in [width : 0..1, height : 0..1, output_path : Paths] :
        /\ Handle(t, "create_sprite", p, create_sprite(p))
        /\ UNCHANGED mainVars

FlipSprite(t) ==
    \E p \in [direction : Directions] :
        /\ Handle(t, "flip_sprite", p, flip_sprite(p))
        /\ UNCHANGED mainVars

RotateSprite(t) ==
    \E p \in [angle : Angles] :
        /\ Handle(t, "rotate_sprite", p, rotate_sprite(p))
        /\ UNCHANGED mainVars

ChangeColorMode(t) ==
    \E p \in [color_mode : ColorModes] :
        /\ Handle(t, "change_color_mode", p, change_color_mode(p))
        /\ UNCHANGED mainVars

DrawPixels(t) ==
    \E p \in [pixels : StringsUpTo(Colors, MaxPixels)] :
        /\ Handle(t, "draw_pixels", p, draw_pixels(p))
        /\ UNCHANGED mainVars

UseTool(t) ==
    \E p \in [points : 0..1, color : Colors] :
        /\ Handle(t, "use_tool", p, use_tool(p))
        /\ UNCHANGED mainVars

ResizePalette(t) ==
    \E p \in [size : 0..1] :
        /\ Handle(t, "resize_palette", p, resize_palette(p))
        /\ UNCHANGED mainVars

\* ToolSpec: task 1 handles one request after the other, and a request
\* that passes runs its script as in ConcSpec: the child writes nothing,
\* has no descendant, and exits or outlasts the timeout.
ToolInit ==
    /\ RunnerInit
    /\ arg = <<>>
    /\ ret = <<>>
    /\ op = "none"

ToolNext ==
    \/ \E t \in Serving : CreateSprite(t)
    \/ \E t \in Serving : FlipSprite(t)
    \/ \E t \in Serving : RotateSprite(t)
    \/ \E t \in Serving : ChangeColorMode(t)
    \/ \E t \in Serving : DrawPixels(t)
    \/ \E t \in Serving : UseTool(t)
    \/ \E t \in Serving : ResizePalette(t)
    \/ \E t \in Serving :
          /\ SupervisorStep(t)
          /\ output'[t] = Zero
          /\ behaviour'[t] \in {"none", "slow"}
          /\ ts'[t] = 0
          /\ child'[t] = "reaped" => ~wopen'[t]
          /\ UNCHANGED <<mainVars, pureVars>>
    \/ \E t \in Serving :
          /\ ChildExit(t)
          /\ ~wopen'[t]
          /\ status'[t].kind = "exited"
          /\ UNCHANGED <<mainVars, pureVars>>
    \/ \E t \in Serving : TimeoutElapses(t) /\ UNCHANGED <<mainVars, pureVars>>
    \/ \E t \in Serving : WaitFails(t) /\ UNCHANGED <<mainVars, pureVars>>
    \/ \E t \in Serving : Finish(t) /\ UNCHANGED <<mainVars, pureVars>>

ToolSpec == ToolInit /\ [][ToolNext]_vars

\* ================================================================ claims

AfterCall(t) == pc[t] = "returned"
ExecuteReturned(t) == pc[t] \in {"cleanup", "returned"} /\ child[t] # "none"

\* C1: when run_script or run_script_on_file returns, on whatever path, the
\* temp script file the invocation created is no longer on disk.
C1_TempFileGoneOnReturn ==
    \A t \in Tasks :
        (AfterCall(t) /\ UsesScript(kind[t])) => script_path[t] \notin files

\* C2: a program that writes a finite amount to stdout and stderr and exits,
\* prompt enough for the timeout when its output is drained, makes the
\* invocation complete with everything it wrote, however much that is.
C2_PromptChildFullyCaptured ==
    \A t \in Tasks :
        (/\ ExecuteReturned(t)
         /\ behaviour[t] = "prompt"
         /\ result[t] # ErrResult("WaitFailed"))
        => /\ result[t].tag = "Ok"
           /\ result[t].stdout = output[t]["stdout"]
           /\ result[t].stderr = output[t]["stderr"]

\* C3: once the timeout has elapsed with the child not exited, the next step
\* of the supervisor ends execute_with_timeout with the timeout error and the
\* child killed and reaped; and an invocation that holds the timeout error
\* never has a running child.
C3_TimeoutKillsAndReaps ==
    /\ [](\A t \in Tasks :
             result[t] = ErrResult("TimedOut") => child[t] = "reaped")
    /\ [][\A t \in Tasks :
             pc[t] = "kill" =>
                \/ pc'[t] = "kill"
                \/ /\ pc'[t] = AfterExecute(t)
                   /\ result'[t] = ErrResult("TimedOut")
                   /\ child'[t] = "reaped"]_vars

C3_Witness ==
    \E t \in Tasks :
        /\ AfterCall(t)
        /\ kind[t] = "run_script"
        /\ result[t] = ErrResult("TimedOut")
        /\ behaviour[t] = "hang"
        /\ status[t] = Killed

\* C4: every invocation that has started eventually returns to its caller,
\* whatever the child does with its output streams.
C4_EveryInvocationReturns ==
    \A t \in Tasks : (pc[t] # "idle") ~> AfterCall(t)

\* C5: a returned ScriptOutput has success = true exactly when the child
\* exited with status code 0 (not when a signal ended it, not on another code).
C5_SuccessIffExitZero ==
    \A t \in Tasks :
        result[t].tag = "Ok" =>
            (result[t].success <=> status[t] = [kind |-> "exited", code |-> 0])

C5_Witness ==
    \E t \in Tasks :
        /\ AfterCall(t)
        /\ result[t].tag = "Ok"
        /\ status[t].kind = "signaled"
        /\ ~result[t].success

\* C6: the paths temp_script_path has handed to concurrent callers are
\* pairwise distinct, also when the callers read the same timestamp.
Allocated(t) == pc[t] = "write"
C6_DistinctTempPaths ==
    /\ \A t, u \in Tasks :
          (t # u /\ Allocated(t) /\ Allocated(u))
          => script_path[t] # script_path[u]
    /\ Cardinality({script_path[t] : t \in {u \in Tasks : Allocated(u)}}) = COUNTER

C6_Witness ==
    /\ \A t \in Tasks : Allocated(t) /\ ts[t] = 0
    /\ COUNTER = NumTasks

\* C7: decoding lua_string(s) with Lua's string-literal grammar gives s back.
C7_LuaStringRoundTrip ==
    op = "lua_string" => (LuaDecode(ret).ok /\ LuaDecode(ret).value = arg)

\* The run of backslashes that ends just before position i of s.
RECURSIVE BackslashRun(_, _)
BackslashRun(s, i) ==
    IF i > 1 /\ s[i - 1] = BACKSLASH THEN 1 + BackslashRun(s, i - 1) ELSE 0

\* C8: lua_string(s) starts and ends with a double quote; between them there
\* is no raw line feed, carriage return or NUL, every double quote follows an
\* odd run of backslashes, and the interior does not end in an odd run.
C8_LiteralCannotBeBroken ==
    op = "lua_string" =>
        /\ Len(ret) >= 2
        /\ ret[1] = DQUOTE
        /\ ret[Len(ret)] = DQUOTE
        /\ \A i \in 2..(Len(ret) - 1) :
              /\ ret[i] \notin {LF, CR, NUL}
              /\ ret[i] = DQUOTE => BackslashRun(ret, i) % 2 = 1
        /\ BackslashRun(ret, Len(ret)) % 2 = 0

C8_Witness ==
    /\ op = "lua_string"
    /\ arg = <<BACKSLASH, DQUOTE, LF>>
    /\ ret = <<DQUOTE, BACKSLASH, BACKSLASH, BACKSLASH, DQUOTE, BACKSLASH, 110,
               DQUOTE>>

\* C9: normalize_path(p) has no backslash, has the length of p and agrees
\* with p wherever p has another character; it is idempotent; and
\* lua_path(p) is lua_string(normalize_path(p)).
C9_NormalizePath ==
    /\ op = "normalize_path" =>
          /\ \A i \in 1..Len(ret) : ret[i] # BACKSLASH
          /\ Len(ret) = Len(arg)
          /\ \A i \in 1..Len(arg) : arg[i] # BACKSLASH => ret[i] = arg[i]
          /\ normalize_path(ret) = ret
    /\ op = "lua_path" => ret = lua_string(normalize_path(arg))

C9_Witness ==
    /\ op = "normalize_path"
    /\ arg = <<BACKSLASH, 110, BACKSLASH>>
    /\ ret = <<SLASH, 110, SLASH>>

\* C10 as claimed: with success = true, result_text is the trimmed stdout
\* whenever stdout is non-empty, whitespace-only included, and the canned
\* message exactly when stdout is empty.
C10_AsClaimed ==
    (op = "result_text" /\ arg.success) =>
        /\ arg.stdout # <<>> => ret = Trim(arg.stdout)
        /\ ret = MsgCompleted <=> arg.stdout = <<>>

\* C10 amended: with success = true, result_text is the trimmed stdout
\* whenever stdout has a character that is not whitespace, and the canned
\* message whenever stdout is empty or whitespace only.
C10_TrimmedOrCanned ==
    (op = "result_text" /\ arg.success) =>
        /\ Trim(arg.stdout) # <<>> => ret = Trim(arg.stdout)
        /\ Trim(arg.stdout) = <<>> => ret = MsgCompleted

C10_Witness ==
    /\ op = "result_text"
    /\ arg.success
    /\ arg.stdout = <<32, LF>>
    /\ ret = MsgCompleted

\* What follows "Error: " in a result text (empty when the text is shorter).
AfterPrefix(text) == SubSeq(text, Len(ErrorPrefix) + 1, Len(text))

\* C11: with success = false, result_text is "Error: " followed by the
\* trimmed stderr when stderr is not blank, else by the trimmed stdout when
\* stdout is not blank, else by "Unknown error occurred": every failure text
\* starts with "Error: " and stdout is used only when stderr is blank.
C11_FailureText ==
    (op = "result_text" /\ ~arg.success) =>
        /\ Len(ret) > Len(ErrorPrefix)
        /\ SubSeq(ret, 1, Len(ErrorPrefix)) = ErrorPrefix
        /\ Trim(arg.stderr) # <<>> => AfterPrefix(ret) = Trim(arg.stderr)
        /\ (Trim(arg.stderr) = <<>> /\ Trim(arg.stdout) # <<>>) =>
               AfterPrefix(ret) = Trim(arg.stdout)
        /\ (Trim(arg.stderr) = <<>> /\ Trim(arg.stdout) = <<>>) =>
               AfterPrefix(ret) = MsgUnknown

\* A failure whose stderr is blank and whose stdout is not.
C11_Witness ==
    /\ op = "result_text"
    /\ ~arg.success
    /\ arg.stderr = <<32>>
    /\ arg.stdout = <<104, LF>>
    /\ ret = ErrorPrefix \o <<104>>

\* The step in which task t leaves the timeout branch of execute_with_timeout.
TimeoutReturns(t) == pc[t] = "kill" /\ pc'[t] # "kill"

\* C12: when the timeout elapses, the invocation returns an error value and
\* not an outcome; the error differs from the one of a spawn failure and from
\* every outcome of a completed child, and holds none of the bytes the child
\* wrote (no stdout or stderr field, nothing read from the pipes).
C12_TimeoutIsAnError ==
    /\ [][\A t \in Tasks : TimeoutReturns(t) =>
              /\ result'[t].tag = "Err"
              /\ result'[t] # ErrResult("SpawnFailed")
              /\ \A out, err \in 0..MaxOut, st \in Statuses \cup {Killed} :
                    result'[t] # OkResult(out, err, st)
              /\ DOMAIN result'[t] = {"tag", "error"}
              /\ captured'[t] = Zero]_vars
    /\ [](\A t \in Tasks : result[t] = ErrResult("TimedOut") =>
              /\ child[t] = "reaped"
              /\ captured[t] = Zero)

\* The timeout error returned for a child that had written to its stdout.
C12_Witness ==
    \E t \in Tasks :
        /\ AfterCall(t)
        /\ result[t] = ErrResult("TimedOut")
        /\ wrote[t]["stdout"] > 0

\* C13: every tool request with well-typed parameters, a malformed colour
\* string such as "#ff" included, makes its handler return a value: no
\* handler panics.
C13_HandlerNeverPanics ==
    op = "set_palette_color" => ret # Panic

\* The step in which the spawn of task t fails.
SpawnFails(t) == pc[t] = "spawn" /\ result'[t] = ErrResult("SpawnFailed")

\* C14: when the child cannot be launched, the invocation goes straight to
\* its return with the spawn error: it never waits, never reads a stream and
\* has no child; the Runner's fields are unchanged, and once the call has
\* returned the task is back in the state every invocation starts from, so
\* a later invocation can spawn and complete.
C14_SpawnFailureConfined ==
    /\ [](\A t \in Tasks : result[t] = ErrResult("SpawnFailed") =>
              /\ pc[t] \in {"cleanup", "returned"}
              /\ child[t] = "none"
              /\ status[t] = NoStatus
              /\ captured[t] = Zero)
    /\ [][\A t \in Tasks : SpawnFails(t) =>
              /\ pc'[t] = AfterExecute(t)
              /\ exe_path' = exe_path
              /\ temp_dir' = temp_dir
              /\ UNCHANGED <<COUNTER, files>>]_vars
    /\ [][\A t \in Tasks :
              (AfterCall(t) /\ result[t] = ErrResult("SpawnFailed")
                 /\ pc'[t] = "idle") =>
              /\ UNCHANGED <<exe_path, temp_dir, phase>>
              /\ kind'[t] = "none" /\ child'[t] = "none"
              /\ pipe'[t] = Zero /\ wopen'[t] = FALSE
              /\ status'[t] = NoStatus /\ captured'[t] = Zero
              /\ result'[t] = NoResult]_vars

\* A call of run_cli has returned the spawn error.
C14_Witness ==
    \E t \in Tasks :
        /\ AfterCall(t)
        /\ kind[t] = "run_cli"
        /\ result[t] = ErrResult("SpawnFailed")

\* C15: when the temp script file cannot be written, run_script and
\* run_script_on_file return an error for that call and spawn no child.
C15_WriteFailureSpawnsNothing ==
    /\ [][\A t \in Tasks :
              (pc[t] = "write" /\ pc'[t] # "write"
                 /\ script_path[t] \notin files') =>
              /\ pc'[t] = "returned"
              /\ result'[t] = ErrResult("WriteFailed")
              /\ child'[t] = "none"]_vars
    /\ [](\A t \in Tasks : result[t] = ErrResult("WriteFailed") =>
              /\ AfterCall(t)
              /\ UsesScript(kind[t])
              /\ child[t] = "none")

\* run_script_on_file has returned the write error.
C15_Witness ==
    \E t \in Tasks :
        /\ AfterCall(t)
        /\ kind[t] = "run_script_on_file"
        /\ result[t] = ErrResult("WriteFailed")
        /\ child[t] = "none"

\* The values execute_with_timeout returns.
ExecutionResults ==
    {ErrResult(e) : e \in {"SpawnFailed", "WaitFailed", "TimedOut"}}
    \cup {OkResult(out, err, st) : out \in 0..MaxOut, err \in 0..MaxOut,
                                   st \in Statuses}

\* C16: whether or not the temp file could be removed, the invocation
\* returns exactly the result of the execution step.
C16_RemovalNeverChangesResult ==
    /\ [][\A t \in Tasks : (pc[t] = "cleanup" /\ pc'[t] # "cleanup") =>
              /\ pc'[t] = "returned"
              /\ result[t] \in ExecutionResults
              /\ result'[t] = result[t]]_vars
    /\ [](\A t \in Tasks :
              (AfterCall(t) /\ result[t] # ErrResult("WriteFailed")) =>
                  result[t] \in ExecutionResults)

\* A call has returned the outcome of its child and its temp file is still
\* there: the removal failed.
C16_Witness ==
    \E t \in Tasks :
        /\ AfterCall(t)
        /\ result[t].tag = "Ok"
        /\ script_path[t] \in files

\* The candidates in the order claimed for every platform: the override, the
\* platform's well-known paths, the first output line of the lookup.
KnownPaths(e) ==
    CASE e.platform = "windows" -> WindowsCandidates
      [] e.platform = "macos" -> <<MacPath>>
      [] e.platform = "linux" -> <<SteamPath>>
ClaimedCandidates(e) ==
    (IF e.ASEPRITE_PATH # Unset THEN <<e.ASEPRITE_PATH>> ELSE <<>>)
    \o KnownPaths(e) \o WhereCandidate(e)

\* C17: on every platform discovery returns the first existing candidate in
\* the order override, well-known paths, first output line of which/where,
\* and fails with not-found only when none of them exists.
C17_DiscoveryOrder ==
    op = "find_aseprite" =>
        ret = FirstExisting(ClaimedCandidates(arg), arg.exists)

\* C18: with ASEPRITE_PATH set to a path that does not exist, discovery
\* returns what it returns when ASEPRITE_PATH is not set: the result of the
\* platform's strategies, or not-found when they find nothing.
C18_MissingOverrideFallsThrough ==
    (op = "find_aseprite" /\ arg.ASEPRITE_PATH # Unset
       /\ arg.ASEPRITE_PATH \notin arg.exists) =>
        /\ ret = find_aseprite([arg EXCEPT !.ASEPRITE_PATH = Unset])
        /\ ret.ok <=> \E i \in DOMAIN PlatformCandidates(arg) :
                          PlatformCandidates(arg)[i] \in arg.exists

\* ASEPRITE_PATH names a missing path and the Steam installation is found.
C18_Witness ==
    /\ op = "find_aseprite"
    /\ arg.platform = "linux"
    /\ arg.ASEPRITE_PATH = OverridePath
    /\ OverridePath \notin arg.exists
    /\ ret = Found(SteamPath)

\* C19: discovery and the creation of the temp directory run once each, at
\* startup and before any request is accepted; when discovery fails the
\* process exits without having served a request; no invocation runs
\* discovery again or changes what it found.
C19_DiscoveryOnceAtStartup ==
    /\ [](/\ discoveries <= 1 /\ mkdirs <= 1
          /\ (\E t \in Tasks : pc[t] # "idle") => phase = "serving"
          /\ phase = "serving" =>
                /\ discoveries = 1 /\ mkdirs = 1
                /\ exe_path # Unassigned /\ temp_dir # Unassigned
          /\ exe_path = Unassigned =>
                /\ \A t \in Tasks : pc[t] = "idle"
                /\ COUNTER = 0 /\ files = {})
    /\ [][phase = "serving" =>
             UNCHANGED <<discoveries, mkdirs, exe_path, temp_dir>>]_vars
    /\ [][phase = "exited" => phase' = "exited"]_vars

\* The process has started, discovered and built its Runner, serves, and a
\* second invocation has returned the outcome of its child.
C19_Witness ==
    /\ phase = "serving"
    /\ discoveries = 1
    /\ mkdirs = 1
    /\ COUNTER = 2
    /\ \E t \in Tasks : AfterCall(t) /\ result[t].tag = "Ok"

\* Task t is reading one of the child's streams.
Reading(t) == pc[t] \in {"read_stdout", "read_stderr"}

\* C20: a read of the child's stdout or stderr happens only after the wait
\* has resolved with the child's exit status; on the timeout path and on the
\* spawn-failure path nothing is read.
C20_ReadsOnlyAfterCompletion ==
    /\ [](\A t \in Tasks :
              /\ Reading(t) => child[t] = "reaped" /\ status[t] \in Statuses
              /\ captured[t] # Zero =>
                    /\ child[t] = "reaped" /\ status[t] \in Statuses
                    /\ result[t] \notin {ErrResult("TimedOut"),
                                         ErrResult("SpawnFailed")}
              /\ result[t] \in {ErrResult("TimedOut"), ErrResult("SpawnFailed")}
                    => captured[t] = Zero /\ ~Reading(t))
    /\ [][\A t \in Tasks :
              /\ (Reading(t)' /\ ~Reading(t)) =>
                    pc[t] = "wait" /\ child[t] = "zombie"
              /\ (\E s \in Streams : captured'[t][s] > captured[t][s]) =>
                    Reading(t)
              /\ (\E s \in Streams : pipe'[t][s] < pipe[t][s]) =>
                    Reading(t) \/ AfterCall(t)]_vars

\* The wait has resolved and the bytes of stdout have been read.
C20_Witness ==
    \E t \in Tasks :
        /\ pc[t] = "read_stderr"
        /\ captured[t]["stdout"] > 0
        /\ status[t] \in Statuses

\* Task t is inside execute_with_timeout, or past it.
Executing(t) ==
    pc[t] \in {"spawn", "wait", "kill", "read_stdout", "read_stderr", "cleanup"}

\* C21: in one run_script / run_script_on_file invocation the write of the
\* temp file is complete before the spawn, the spawn comes before the
\* exit/timeout race, and the removal is attempted only when the race has
\* resolved or the spawn has failed.
C21_WriteSpawnRaceRemove ==
    /\ [](\A t \in Tasks : UsesScript(kind[t]) =>
              /\ Executing(t) => script_path[t] \in files
              /\ child[t] # "none" => pc[t] \notin {"now", "fetch_add", "write", "spawn"}
              /\ pc[t] = "cleanup" =>
                    /\ result[t] # NoResult
                    /\ child[t] \in {"none", "reaped"})
    /\ [][\A t \in Tasks : UsesScript(kind'[t]) =>
              /\ (pc'[t] = "spawn" /\ pc[t] # "spawn") =>
                    pc[t] = "write" /\ script_path[t] \in files'
              /\ (pc'[t] = "wait" /\ pc[t] # "wait") =>
                    pc[t] = "spawn" /\ child'[t] = "running"
              /\ (pc'[t] = "cleanup" /\ pc[t] # "cleanup") =>
                    \/ pc[t] = "spawn" /\ result'[t] = ErrResult("SpawnFailed")
                    \/ pc[t] \in {"wait", "kill", "read_stderr"}]_vars

\* run_script is about to remove its temp file after its child completed.
C21_Witness ==
    \E t \in Tasks :
        /\ pc[t] = "cleanup"
        /\ kind[t] = "run_script"
        /\ result[t].tag = "Ok"
        /\ script_path[t] \in files

\* C22: an invocation makes at most one spawn attempt: when the spawn is
\* attempted the invocation has no child and no result yet, and after a spawn
\* failure, a timeout or a non-zero exit it never comes back to the spawn.
C22_AtMostOneSpawn ==
    /\ [](\A t \in Tasks : pc[t] = "spawn" =>
              child[t] = "none" /\ result[t] = NoResult)
    /\ [][\A t \in Tasks :
              /\ (pc'[t] = "spawn" /\ pc[t] # "spawn") =>
                    pc[t] \in {"idle", "write"}
              /\ (child'[t] = "running" /\ child[t] # "running") =>
                    pc[t] = "spawn" /\ child[t] = "none"
              /\ result[t] # NoResult =>
                    /\ pc'[t] # "spawn"
                    /\ child'[t] = "running" => child[t] = "running"]_vars

\* The child exited with a non-zero code and the call has returned.
C22_Witness ==
    \E t \in Tasks :
        /\ AfterCall(t)
        /\ result[t].tag = "Ok"
        /\ ~result[t].success
        /\ child[t] = "reaped"

\* C25: the child's arguments are --batch, --script, the script path for
\* run_script; --batch, the target file, --script, the script path for
\* run_script_on_file; --batch and the caller's arguments in their order for
\* run_cli; stdout and stderr are piped in all three.
C25_ArgumentLists ==
    op = "command" =>
        /\ ret.program = exe_path
        /\ ret.stdout = "piped" /\ ret.stderr = "piped"
        /\ ret.args[1] = BATCH
        /\ arg.kind = "run_script" =>
              /\ Len(ret.args) = 3
              /\ ret.args[2] = SCRIPT /\ ret.args[3] = arg.script_path
        /\ arg.kind = "run_script_on_file" =>
              /\ Len(ret.args) = 4
              /\ ret.args[2] = arg.file_path
              /\ ret.args[3] = SCRIPT /\ ret.args[4] = arg.script_path
        /\ arg.kind = "run_cli" =>
              /\ Len(ret.args) = 1 + Len(arg.args)
              /\ \A i \in 1..Len(arg.args) : ret.args[i + 1] = arg.args[i]

\* run_script_on_file on a sprite: the file comes before --script.
C25_Witness ==
    /\ op = "command"
    /\ arg.kind = "run_script_on_file"
    /\ arg.file_path = <<"a", ".", "a", "s", "e">>
    /\ ret.args = <<BATCH, arg.file_path, SCRIPT, arg.script_path>>

\* Everything the model holds for the invocation of task t.
TaskState(t) ==
    <<pc[t], kind[t], ts[t], script_path[t], child[t], behaviour[t],
      output[t], wrote[t], pipe[t], wopen[t], status[t], captured[t],
      result[t]>>

\* The command of task t's child, for a sprite and no further arguments.
ChildCommand(t) ==
    CommandOf(kind[t], exe_path, <<"a", ".", "a", "s", "e">>, script_path[t],
              <<>>)

\* C23: invocations that run at the same time on one Runner have each their
\* own child and their own temp file: their paths differ, a file is written
\* and removed by the invocation that allocated it and is there for as long
\* as that invocation needs it, the command of a child names no other
\* invocation's file, a step of one invocation leaves the state of the
\* others alone, and of what they share only the counter (and the files
\* each owns) changes.
C23_OwnChildOwnFile ==
    /\ [](\A t, u \in Tasks : t # u =>
              /\ (script_path[t] # NoPath /\ script_path[u] # NoPath) =>
                    script_path[t] # script_path[u]
              /\ (UsesScript(kind[t]) /\ Executing(t)) =>
                    script_path[t] \in files
              /\ (child[t] # "none" /\ script_path[u] # NoPath) =>
                    \A i \in DOMAIN ChildCommand(t).args :
                       ChildCommand(t).args[i] # script_path[u])
    /\ [][/\ \A p \in files' \ files :
                \E t \in Tasks : pc[t] = "write" /\ script_path[t] = p
                                   /\ pc'[t] # "write"
          /\ \A p \in files \ files' :
                \E t \in Tasks : pc[t] = "cleanup" /\ script_path[t] = p
                                   /\ pc'[t] = "returned"
          /\ \E t \in Tasks : \A u \in Tasks \ {t} : TaskState(u)' = TaskState(u)
          /\ UNCHANGED <<exe_path, temp_dir>>
          /\ COUNTER' \in {COUNTER, COUNTER + 1}]_vars

\* Two invocations have each a running child and each its own file.
C23_Witness ==
    /\ \A t \in Concurrent : child[t] = "running" /\ script_path[t] \in files
    /\ script_path[1] # script_path[2]
    /\ ts[1] = ts[2]

\* The errors an invocation returns.
RunnerErrors == {"WriteFailed", "SpawnFailed", "WaitFailed", "TimedOut"}

\* C24: no invocation changes the Runner's executable path or temp directory
\* or runs discovery, and none looks whether the executable is there before
\* it spawns: with the executable removed after startup an invocation
\* still allocates and writes its script and comes to the spawn, which
\* fails with the spawn error of that call; no call returns a discovery
\* error.
C24_PathsFixedNoRevalidation ==
    /\ [][UNCHANGED <<exe_path, temp_dir, discoveries, mkdirs, phase>>]_vars
    /\ [](\A t \in Tasks : result[t].tag = "Err" =>
              result[t].error \in RunnerErrors)
    /\ [][\A t \in Tasks :
              /\ (~exe_exists /\ pc[t] = "spawn" /\ pc'[t] # "spawn") =>
                    result'[t] = ErrResult("SpawnFailed")
              /\ (~exe_exists /\ result[t] = NoResult /\ result'[t] # NoResult)
                    => pc[t] \in {"write", "spawn", "wait", "kill", "read_stderr"}]_vars

\* The executable was removed after startup and run_script, its script
\* written, has returned the spawn error.
C24_Witness ==
    \E t \in Tasks :
        /\ ~exe_exists
        /\ exe_path = ExePath
        /\ AfterCall(t)
        /\ kind[t] = "run_script"
        /\ child[t] = "none"
        /\ result[t] = ErrResult("SpawnFailed")

\* Task t's child is not running: it was never spawned, or it has been
\* waited for (after its exit or after the kill).
ChildGone(t) == child[t] \in {"none", "reaped"}

\* C26: the temp script file of an invocation is not removed while its child
\* may be running: the removal is attempted only when the child has exited
\* and been waited for, when the kill of the timeout has been awaited, or
\* when the spawn has failed.
C26_NoRemovalWhileChildRuns ==
    /\ [](\A t \in Tasks : pc[t] = "cleanup" =>
              \/ child[t] = "none" /\ result[t] = ErrResult("SpawnFailed")
              \/ child[t] = "reaped" /\ result[t] # NoResult)
    /\ [](\A t \in Tasks :
              (child[t] \in {"running", "zombie"} /\ UsesScript(kind[t])) =>
                  script_path[t] \in files)
    /\ [][\A t \in Tasks :
              (script_path[t] \in files /\ script_path[t] \notin files') =>
                  ChildGone(t) /\ pc[t] = "cleanup"]_vars

\* The timeout elapsed, the child was killed and waited for, and only then
\* was the temp file removed.
C26_Witness ==
    \E t \in Tasks :
        /\ AfterCall(t)
        /\ result[t] = ErrResult("TimedOut")
        /\ status[t] = Killed
        /\ child[t] = "reaped"
        /\ script_path[t] # NoPath
        /\ script_path[t] \notin files

StartsWith(text, prefix) ==
    Len(text) >= Len(prefix) /\ SubSeq(text, 1, Len(prefix)) = prefix

\* C27: execute_script, execute_script_on_file and execute_cli return
\* Ok(text) exactly when the runner returned an outcome with success = true;
\* an outcome with success = false gives Err(result_text), which starts with
\* "Error: "; an error of the runner gives Err with another prefix,
\* "Failed to execute script: " or "CLI execution failed: ".
C27_OkIffSuccess ==
    op \in {"execute_script", "execute_script_on_file", "execute_cli"} =>
        /\ ret.tag = "Ok" <=> (arg.tag = "Ok" /\ arg.success)
        /\ arg.tag = "Ok" => ret.text = result_text(arg)
        /\ (arg.tag = "Ok" /\ ~arg.success) =>
              ret.tag = "Err" /\ StartsWith(ret.text, ErrorPrefix)
        /\ arg.tag = "Err" =>
              /\ ret.tag = "Err"
              /\ ~StartsWith(ret.text, ErrorPrefix)
              /\ StartsWith(ret.text, IF op = "execute_cli" THEN CliPrefix
                                      ELSE ScriptPrefix)
              /\ ret.text = (IF op = "execute_cli" THEN CliPrefix
                             ELSE ScriptPrefix) \o ErrorMessage(arg.error)

\* execute_script on an outcome that failed with text on stderr.
C27_Witness ==
    /\ op = "execute_script"
    /\ arg.tag = "Ok"
    /\ ~arg.success
    /\ arg.stderr = <<104>>
    /\ ret = Err(ErrorPrefix \o <<104>>)

\* The requests C28 names: what the tool's parameters must not be.
InvalidRequest(tool, p) ==
    CASE tool = "create_sprite" ->
            p.width = 0 \/ p.height = 0
            \/ \A i \in DOMAIN p.output_path : IsWhitespace(p.output_path[i])
      [] tool = "rotate_sprite" -> p.angle \notin {90, 180, 270}
      [] tool = "flip_sprite" ->
            to_lowercase(p.direction) \notin {HORIZONTAL, VERTICAL}
      [] tool = "change_color_mode" ->
            to_lowercase(p.color_mode) \notin {RGB, GRAYSCALE, INDEXED}
      [] tool = "draw_pixels" ->
            p.pixels = <<>>
            \/ \E i \in DOMAIN p.pixels : ~validate_hex_color(p.pixels[i]).ok
      [] tool = "use_tool" ->
            p.points = 0 \/ ~validate_hex_color(p.color).ok
      [] tool = "resize_palette" -> p.size = 0
      [] OTHER -> FALSE

\* C28: a request one of the validating tools must reject (create_sprite
\* with width or height 0 or a blank output path, rotate_sprite with an
\* angle other than 90, 180, 270, flip_sprite or change_color_mode with an
\* unknown mode, draw_pixels or use_tool with an empty list or an invalid
\* colour, resize_palette with size 0) returns Err, and the step that
\* handles it allocates no path, writes and removes no file, spawns no
\* process and leaves the task idle.
C28_RejectedBeforeSideEffect ==
    [][InvalidRequest(op', arg') =>
          /\ ret'.tag = "Err"
          /\ COUNTER' = COUNTER
          /\ files' = files
          /\ child' = child
          /\ script_path' = script_path
          /\ \A t \in Serving : pc'[t] = "idle"]_vars

\* A draw_pixels request with a bad colour was rejected after an earlier
\* request had run its script.
C28_Witness ==
    /\ op = "draw_pixels"
    /\ Len(arg.pixels) = 2
    /\ InvalidRequest(op, arg)
    /\ ret.tag = "Err"
    /\ COUNTER > 0
    /\ \A t \in Serving : pc[t] = "idle" /\ child[t] = "none"

\* The value of a hex digit, and of the two digits of h from place i.
DigitValue(c) ==
    IF c \in 48..57 THEN c - 48
    ELSE IF c \in 97..102 THEN c - 87
    ELSE c - 55
PairValue(h, i) == 16 * DigitValue(h[i]) + DigitValue(h[i + 1])

\* The strings validate_hex_color is to accept: after every leading '#',
\* exactly 6 or 8 characters, each an ASCII hex digit.
Accepted(hex) ==
    LET h == TrimSharps(hex)
    IN /\ Len(h) \in {6, 8}
       /\ \A i \in DOMAIN h : h[i] \in (48..57) \cup (65..70) \cup (97..102)

\* C29: validate_hex_color accepts exactly the strings that, after every
\* leading '#', are 6 or 8 ASCII hex digits; for each of them
\* parse_hex_color_with_alpha returns, without fault, the values of the
\* digit pairs with alpha 255 when there are 6 digits, and parse_hex_color
\* returns the same r, g, b.
C29_ValidatedColoursParse ==
    LET h == TrimSharps(arg)
    IN /\ op = "validate_hex_color" => (ret.ok <=> Accepted(arg))
       /\ op = "parse_hex_color_with_alpha" /\ Accepted(arg) =>
             ret = [r |-> PairValue(h, 1), g |-> PairValue(h, 3),
                    b |-> PairValue(h, 5),
                    a |-> IF Len(h) = 8 THEN PairValue(h, 7) ELSE 255]
       /\ op = "parse_hex_color" /\ Accepted(arg) =>
             ret = [r |-> PairValue(h, 1), g |-> PairValue(h, 3),
                    b |-> PairValue(h, 5)]
       /\ Accepted(arg) =>
             /\ validate_hex_color(arg).ok
             /\ parse_hex_color(arg) # Panic
             /\ parse_hex_color(arg).r = parse_hex_color_with_alpha(arg).r
             /\ parse_hex_color(arg).g = parse_hex_color_with_alpha(arg).g
             /\ parse_hex_color(arg).b = parse_hex_color_with_alpha(arg).b

\* "##1ff111f1" was parsed: r = 0x1f, g = 0xf1, b = 0x11, a = 0xf1.
C29_Witness ==
    /\ op = "parse_hex_color_with_alpha"
    /\ arg = <<SHARP, SHARP, 49, 102, 102, 49, 49, 49, 102, 49>>
    /\ ret = [r |-> 31, g |-> 241, b |-> 17, a |-> 241]

\* C30: an invocation through run_cli allocates no temp path, does not
\* advance the allocation counter, and creates or removes no file of the
\* temp directory: from its call to its return COUNTER and files stay as
\* they were, the task holds no script path, and it never stands at the
\* clock read, the fetch_add, the write or the removal.
C30_RunCliLeavesTempDir ==
    [][\A t \in Tasks : kind'[t] = "run_cli" =>
          /\ COUNTER' = COUNTER
          /\ files' = files
          /\ script_path'[t] = NoPath
          /\ pc'[t] \notin {"now", "fetch_add", "write", "cleanup"}]_vars

\* run_cli returned an outcome while the directory held a file that an
\* earlier script run had left.
C30_Witness ==
    \E t \in Tasks :
        /\ kind[t] = "run_cli"
        /\ pc[t] = "returned"
        /\ result[t].tag = "Ok"
        /\ child[t] = "reaped"
        /\ COUNTER > 0
        /\ files # {}

====
